---- MODULE Spec2Model ----
(***************************************************************************)
(* Werewolf game engine: GameState (src/src/core/game_state.py), the       *)
(* orchestrator WerewolfGame (src/src/core/game.py) and the step-driven    *)
(* host loop GameService.run_game_loop (src/src/services/game_service.py). *)
(*                                                                         *)
(* Players are roster positions 1..n (the insertion order of the players   *)
(* dict); a player's name is identified with its position, names being     *)
(* taken as pairwise distinct, except under SpecCreate, where the          *)
(* constructor runs with names that faker may return twice.  An agent's    *)
(* textual answer is modelled by the set of roster names that occur in it  *)
(* (under SpecDistribute and SpecExtract, by its words or characters);     *)
(* FAIL is a raised exception.                                             *)
(*                                                                         *)
(* game_history, the agents' event stream, the Output Sink and the console *)
(* are append-only logs that the engine never reads back to decide         *)
(* anything.  The state keeps, of each log, the entries appended since the *)
(* current phase was entered (NewPhaseLog): the entries of earlier phases  *)
(* are left out of the state.                                              *)
(***************************************************************************)
EXTENDS Integers, Sequences, FiniteSets, TLC

VARIABLES
    role,            \* Player.role per roster position
    alive,           \* Player.is_alive per roster position
    votesReceived,   \* Player.votes_received
    voteTarget,      \* Player.vote_target (0 is None)
    currentPhase,    \* GameState.current_phase
    dayCount,        \* GameState.day_count
    speakerQueue,    \* GameState.speaker_queue
    votingEnabled,   \* GameState.voting_enabled
    history,         \* GameState.game_history (entries of the current phase)
    nightActionTaken,\* hasattr(WerewolfGame, '_night_action_taken')
    events,          \* _distribute_event_to_agents calls, with the recipients
    sink,            \* OutputHandler.notify calls
    stderr,          \* print() calls of the except blocks
    driver,          \* which entry point drives the game
    pc,              \* position of the driver
    winner,          \* run_game's local winner
    speakingRound,   \* run_game_loop's local speaking_round
    failures,        \* number of agent calls that raised so far
    nightKills,      \* players killed since the current night was entered
    spoken,          \* players whose speech was delivered since the day was entered
    result           \* value returned by the last engine call of the current phase

vars == <<role, alive, votesReceived, voteTarget, currentPhase, dayCount,
          speakerQueue, votingEnabled, history, nightActionTaken, events,
          sink, stderr, driver, pc, winner, speakingRound, failures,
          nightKills, spoken, result>>

gsVars == <<role, alive, votesReceived, voteTarget, currentPhase, dayCount,
            speakerQueue, votingEnabled, history>>

----------------------------------------------------------------------------
(* Bounds of the model and constants of the program *)

MinPlayersCode == 3      \* GameState.__init__ lower limit
MinPlayers == 6          \* settings.min_players, the range the hosts accept
MaxPlayers == 6          \* largest roster explored
MaxAnswer == 2           \* an agent names one of the first MaxAnswer candidates
MaxFailures == 1         \* agent calls that may raise in one run
MaxDay == 4              \* a driver is cut off when day_count exceeds it
MaxSpeakingRounds == 2   \* run_game_loop max_speaking_rounds
MaxNameLen == 2          \* longest player name, in characters
MaxAnswerLen == 3        \* longest agent answer, in characters
MaxEligible == 2         \* longest list of eligible targets
MaxVoteRoster == 3       \* largest roster whose vote calls are explored
TwoWolfRoster == 10      \* roster of the night calls: the first with two wolves
MaxTextRoster == 3       \* largest roster whose event texts are explored
MaxSpeechLen == 1        \* longest speech, in words
MaxPlayersCode == 15     \* GameState.__init__ upper limit
MaxRequest == 16         \* largest num_players a GameState is asked for
MaxCollisions == 1       \* names faker draws a second time in one roster
MaxLoops == 2            \* run_game_loop tasks started for one game id
MaxActionRequests == 1   \* player_action requests of action_type speak
MaxServerRoster == 4     \* largest roster of the hosted game

FAIL == "FAIL"
NoResult == [call |-> "none", ret |-> <<>>]

Max2(a, b) == IF a >= b THEN a ELSE b

----------------------------------------------------------------------------
(* Player and roster queries *)

Roster == 1..Len(role)

is_wolf(p) == role[p] = "wolf"
is_civilian(p) == role[p] = "civilian"
is_god(p) == role[p] = "god"

\* the elements of S (a set of roster positions) in roster order
RECURSIVE InOrder(_, _)
InOrder(S, n) ==
    IF n = 0 THEN <<>>
    ELSE IF n \in S THEN Append(InOrder(S, n - 1), n) ELSE InOrder(S, n - 1)

AlivePlayersOf(al) == {p \in DOMAIN al : al[p]}
AliveWolvesOf(al) == {p \in DOMAIN al : al[p] /\ is_wolf(p)}
AliveCiviliansOf(al) == {p \in DOMAIN al : al[p] /\ is_civilian(p)}
AliveNonGodOf(al) == {p \in DOMAIN al : al[p] /\ ~is_god(p)}

alive_players == InOrder(AlivePlayersOf(alive), Len(role))
alive_wolves == InOrder(AliveWolvesOf(alive), Len(role))
alive_civilians == InOrder(AliveCiviliansOf(alive), Len(role))

\* the speaking order with the moderator left in
SpeakingOrderWithGod(al) == InOrder(AlivePlayersOf(al), Len(role))

\* update_speaking_order for an alive map
SpeakingOrderOf(al) == InOrder(AliveNonGodOf(al), Len(role))

\* the wolf count with 0.2 n rounded to the nearest integer
NumWolvesRound(n) == Max2(1, (2 * n + 5) \div 10)
\* _initialize_players: role counts and the shuffled role lists
NumWolves(n) == Max2(1, n \div 5)
NumCivilians(n) == n - NumWolves(n) - 1

\* every arrangement of NumWolves(n) wolves, one moderator and the civilians
RoleLists(n) ==
    UNION {{[p \in 1..n |-> IF p = g THEN "god"
                            ELSE IF p \in W THEN "wolf" ELSE "civilian"] :
               W \in {S \in SUBSET ((1..n) \ {g}) : Cardinality(S) = NumWolves(n)}} :
           g \in 1..n}

\* check_game_over with a strict comparison of wolves and civilians
CheckGameOverBroken(al) ==
    IF AliveWolvesOf(al) = {} THEN <<TRUE, "Civilians">>
    ELSE IF AliveCiviliansOf(al) = {} THEN <<TRUE, "Wolves">>
    ELSE IF Cardinality(AliveWolvesOf(al)) > Cardinality(AliveCiviliansOf(al))
         THEN <<TRUE, "Wolves">>
    ELSE <<FALSE, "">>

\* check_game_over with the no-civilian test moved first
CheckGameOverWipe(al) ==
    IF AliveCiviliansOf(al) = {} THEN <<TRUE, "Wolves">>
    ELSE IF AliveWolvesOf(al) = {} THEN <<TRUE, "Civilians">>
    ELSE IF Cardinality(AliveWolvesOf(al)) >= Cardinality(AliveCiviliansOf(al))
         THEN <<TRUE, "Wolves">>
    ELSE <<FALSE, "">>

\* check_game_over on an alive map
check_game_over(al) ==
    IF AliveWolvesOf(al) = {} THEN <<TRUE, "Civilians">>
    ELSE IF AliveCiviliansOf(al) = {} THEN <<TRUE, "Wolves">>
    ELSE IF Cardinality(AliveWolvesOf(al)) >= Cardinality(AliveCiviliansOf(al))
         THEN <<TRUE, "Wolves">>
    ELSE <<FALSE, "">>

----------------------------------------------------------------------------
(* GameState.__init__ *)

GameStateInit(n) ==
    /\ role \in RoleLists(n)
    /\ alive = [p \in 1..n |-> TRUE]
    /\ votesReceived = [p \in 1..n |-> 0]
    /\ voteTarget = [p \in 1..n |-> 0]
    /\ currentPhase = "day"
    /\ dayCount = 1
    /\ speakerQueue = InOrder({p \in 1..n : role[p] # "god"}, n)
    /\ votingEnabled = FALSE
    /\ history = <<>>

IdleRest ==
    /\ nightActionTaken = FALSE
    /\ events = <<>>
    /\ sink = <<>>
    /\ stderr = <<>>
    /\ winner = ""
    /\ speakingRound = 0
    /\ failures = 0
    /\ nightKills = 0
    /\ spoken = <<>>
    /\ result = NoResult

----------------------------------------------------------------------------
(* GameState driven directly through its public methods *)

Ret(call, ret) == [call |-> call, ret |-> ret]

\* Player.kill
Killed(al, p) == [al EXCEPT ![p] = FALSE]

\* kill_player without update_speaking_order
KillPlayerNoRebuild(player_id) ==
    IF player_id \in Roster
    THEN /\ alive' = Killed(alive, player_id)
         /\ UNCHANGED speakerQueue
    ELSE UNCHANGED <<alive, speakerQueue>>
\* kill_player(player_id); player_id 0 stands for a key that is not in the roster
kill_player(player_id) ==
    IF player_id \in Roster
    THEN /\ alive' = Killed(alive, player_id)
         /\ speakerQueue' = SpeakingOrderOf(alive')
    ELSE UNCHANGED <<alive, speakerQueue>>

ApiKillPlayer ==
    /\ driver = "api"
    /\ \E player_id \in 0..Len(role) :
          /\ kill_player(player_id)
          /\ result' = Ret("kill_player", player_id)
    /\ UNCHANGED <<role, votesReceived, voteTarget, currentPhase, dayCount,
                   votingEnabled, history, nightActionTaken, events, sink,
                   stderr, driver, pc, winner, speakingRound, failures,
                   nightKills, spoken>>

ApiCheckGameOver ==
    /\ driver = "api"
    /\ result' = Ret("check_game_over", check_game_over(alive))
    /\ UNCHANGED <<gsVars, nightActionTaken, events, sink, stderr, driver, pc,
                   winner, speakingRound, failures, nightKills, spoken>>

InitState ==
    /\ \E n \in MinPlayersCode..MaxPlayers : GameStateInit(n)
    /\ IdleRest
    /\ driver = "api"
    /\ pc = "api"

NextState ==
    \/ ApiKillPlayer
    \/ ApiCheckGameOver

SpecState == InitState /\ [][NextState]_vars

----------------------------------------------------------------------------
(* Events, notifications and history entries *)

\* a message: what happened, to whom, and the "Day d (phase): " prefix that
\* add_to_history puts in front (day 0: appended without a prefix)
Msg(kind, who, tgt) == [kind |-> kind, who |-> who, tgt |-> tgt, day |-> 0, phase |-> ""]

\* add_to_history
add_to_history(h, m) == Append(h, [m EXCEPT !.day = dayCount, !.phase = currentPhase])

\* Recipients with a wolf_private event sent to every wolf, dead ones too
RecipientsDeadWolves(type, al) ==
    IF type = "public" THEN {p \in DOMAIN al : ~is_god(p) /\ al[p]}
    ELSE IF type = "wolf_private" THEN {p \in DOMAIN al : is_wolf(p)}
    ELSE {p \in DOMAIN al : ~is_god(p)}

\* Recipients without the moderator test
RecipientsWithGod(type, al) ==
    IF type = "public" THEN {p \in DOMAIN al : al[p]}
    ELSE IF type = "wolf_private" THEN {p \in DOMAIN al : is_wolf(p) /\ al[p]}
    ELSE DOMAIN al

\* Recipients with a public event sent to dead players too
RecipientsPublicAll(type, al) ==
    IF type = "public" THEN {p \in DOMAIN al : ~is_god(p)}
    ELSE IF type = "wolf_private" THEN {p \in DOMAIN al : is_wolf(p) /\ al[p]}
    ELSE {p \in DOMAIN al : ~is_god(p)}

\* Recipients with the results sent to alive players only
RecipientsAliveOnly(type, al) ==
    IF type = "public" THEN {p \in DOMAIN al : ~is_god(p) /\ al[p]}
    ELSE IF type = "wolf_private" THEN {p \in DOMAIN al : is_wolf(p) /\ al[p]}
    ELSE {p \in DOMAIN al : ~is_god(p) /\ al[p]}
\* _distribute_event_to_agents: who gets add_event for an event type
Recipients(type, al) ==
    IF type = "public" THEN {p \in DOMAIN al : ~is_god(p) /\ al[p]}
    ELSE IF type = "wolf_private" THEN {p \in DOMAIN al : is_wolf(p) /\ al[p]}
    ELSE {p \in DOMAIN al : ~is_god(p)}

Distribute(evs, m, speaker, type, al) ==
    Append(evs, [type |-> type, speaker |-> speaker, msg |-> m,
                 to |-> Recipients(type, al)])

\* OutputHandler.notify
Notify(s, cat, tag, player) == Append(s, [cat |-> cat, tag |-> tag, player |-> player])

God == CHOOSE p \in Roster : is_god(p)

\* a log at the entry of a phase: what earlier phases appended is dropped
NewPhaseLog == <<>>

\* what an agent's text can be, as the set of roster names occurring in it:
\* no name at all, or the name of one of the first candidates listed in the
\* instruction ("Choose from: ...", "Available targets: ...")
AnswerTexts(eligible) ==
    {{}} \cup {{eligible[j]} : j \in {i \in DOMAIN eligible : i <= MaxAnswer}}

\* the first eligible name that occurs in the text, else the first eligible one
\* (game.py: the "Extract target name" loops of the vote and of the night kill)
ResolveTarget(text, eligible) ==
    LET hits == {i \in 1..Len(eligible) : eligible[i] \in text}
    IN  IF hits # {}
        THEN eligible[CHOOSE i \in hits : \A j \in hits : i <= j]
        ELSE eligible[1]

CanFail == failures < MaxFailures

----------------------------------------------------------------------------
(* The "Extract target name" code of the vote and of the night kill, on      *)
(* strings: a string is a sequence of characters                             *)

NameChars == {"a", "A", "b"}
AnswerChars == NameChars \cup {" "}

\* str.lower, str.strip and the substring test `x in y`
LowerChar(c) == IF c = "A" THEN "a" ELSE c
ToLower(str) == [i \in DOMAIN str |-> LowerChar(str[i])]
Strip(str) ==
    LET solid == {i \in DOMAIN str : str[i] # " "}
    IN  IF solid = {} THEN <<>>
        ELSE SubSeq(str, CHOOSE i \in solid : \A j \in solid : i <= j,
                         CHOOSE i \in solid : \A j \in solid : i >= j)
Contains(sub, str) ==
    \E i \in 0..(Len(str) - Len(sub)) : SubSeq(str, i + 1, i + Len(sub)) = sub

StringsUpTo(chars, n) == UNION {[1..k -> chars] : k \in 0..n}
Names == StringsUpTo(NameChars, MaxNameLen) \ {<<>>}
Answers == StringsUpTo(AnswerChars, MaxAnswerLen)
EligibleLists ==
    {el \in UNION {[1..k -> Names] : k \in 1..MaxEligible} :
        \A i, j \in DOMAIN el : i # j => el[i] # el[j]}

\* the extraction with a case-sensitive substring test
ExtractTargetNameCased(answer, eligible) ==
    LET stripped == Strip(answer)
        hits == {i \in DOMAIN eligible : Contains(eligible[i], stripped)}
        named == IF hits # {}
                 THEN eligible[CHOOSE i \in hits : \A j \in hits : i <= j]
                 ELSE stripped
    IN  IF \E i \in DOMAIN eligible : eligible[i] = named THEN named
        ELSE eligible[1]

\* strip, take the first eligible name whose lower case occurs in the lower
\* case of the answer, and fall back to the first eligible name
ExtractTargetName(answer, eligible) ==
    LET stripped == Strip(answer)
        hits == {i \in DOMAIN eligible :
                    Contains(ToLower(eligible[i]), ToLower(stripped))}
        named == IF hits # {}
                 THEN eligible[CHOOSE i \in hits : \A j \in hits : i <= j]
                 ELSE stripped
    IN  IF \E i \in DOMAIN eligible : eligible[i] = named THEN named
        ELSE eligible[1]

\* an answer and a list of eligible names are chosen, then the code runs on them
InitExtract ==
    /\ GameStateInit(MinPlayersCode)
    /\ role = <<"wolf", "god", "civilian">>
    /\ nightActionTaken = FALSE /\ events = <<>> /\ sink = <<>> /\ stderr = <<>>
    /\ winner = "" /\ speakingRound = 0 /\ failures = 0 /\ nightKills = 0
    /\ spoken = <<>>
    /\ driver = "extract" /\ pc = "extract"
    /\ \E answer \in Answers, eligible \in EligibleLists :
          result = Ret("input", [answer |-> answer, eligible |-> eligible])

ApplyExtract ==
    /\ driver = "extract" /\ result.call = "input"
    /\ result' = Ret("extract_target_name",
                     [answer |-> result.ret.answer,
                      eligible |-> result.ret.eligible,
                      target |-> ExtractTargetName(result.ret.answer,
                                                   result.ret.eligible)])
    /\ UNCHANGED <<gsVars, nightActionTaken, events, sink, stderr, driver, pc,
                   winner, speakingRound, failures, nightKills, spoken>>

NextExtract == ApplyExtract

SpecExtract == InitExtract /\ [][NextExtract]_vars

----------------------------------------------------------------------------
(* WerewolfGame.get_next_ai_action *)

\* Day branch.  ans is the speaker's agent.step outcome.  The value is the
\* returned action with the state the call leaves behind.
get_next_ai_action_day(ans) ==
    IF speakerQueue = <<>>
    THEN [ret |-> "phase_complete", player |-> 0, queue |-> speakerQueue,
          hist |-> history, evs |-> events, err |-> stderr]
    ELSE LET current_speaker == Head(speakerQueue)
             speech_event == Msg("speech", current_speaker, 0)
         IN  IF alive[current_speaker] /\ ~is_god(current_speaker)
             THEN IF ans = FAIL
                  THEN [ret |-> "none", player |-> current_speaker,
                        queue |-> Tail(speakerQueue), hist |-> history,
                        evs |-> events,
                        err |-> Append(stderr, "Error getting AI response")]
                  ELSE [ret |-> "speech", player |-> current_speaker,
                        queue |-> Tail(speakerQueue),
                        hist |-> Append(history, speech_event),
                        evs |-> Distribute(events, speech_event, current_speaker,
                                           "public", alive),
                        err |-> stderr]
             ELSE [ret |-> "phase_complete", player |-> 0,
                   queue |-> Tail(speakerQueue), hist |-> history,
                   evs |-> events, err |-> stderr]

\* Night branch with every alive player that is not a wolf as eligible target
NightActionAnyTarget(commFail, ans) ==
    LET eligible_targets == InOrder(AlivePlayersOf(alive) \ AliveWolvesOf(alive),
                                    Len(role))
    IN  IF alive_wolves # <<>> /\ ~nightActionTaken /\ eligible_targets # <<>>
           /\ ~ans.raised
        THEN [ret |-> "night_kill",
              target |-> ResolveTarget(ans.text, eligible_targets),
              comms |-> IF Len(alive_wolves) > 1 THEN alive_wolves ELSE <<>>,
              taken |-> TRUE, asked |-> <<alive_wolves[1]>>, err |-> stderr]
        ELSE [ret |-> "none", target |-> 0, comms |-> <<>>,
              taken |-> nightActionTaken, asked |-> <<>>, err |-> stderr]

\* Night branch.  commFail is the position in alive_wolves of the wolf whose
\* coordination call raises (0: none does); ans is the outcome of the target
\* call: it raised, or it returned a text.  asked lists the wolves whose agent
\* got the "Choose a player to eliminate" instruction.
get_next_ai_action_night(commFail, ans) ==
    LET eligible_targets == alive_civilians
    IN  IF alive_wolves # <<>> /\ ~nightActionTaken
        THEN IF Len(alive_wolves) > 1 /\ commFail # 0
             THEN [ret |-> "none", target |-> 0, comms |-> <<>>,
                   taken |-> nightActionTaken, asked |-> <<>>,
                   err |-> Append(stderr, "Error in wolf night action")]
             ELSE IF eligible_targets = <<>>
             THEN [ret |-> "none", target |-> 0, comms |-> <<>>,
                   taken |-> nightActionTaken, asked |-> <<>>, err |-> stderr]
             ELSE IF ans.raised
             THEN [ret |-> "none", target |-> 0, comms |-> <<>>,
                   taken |-> nightActionTaken, asked |-> <<alive_wolves[1]>>,
                   err |-> Append(stderr, "Error in wolf night action")]
             ELSE [ret |-> "night_kill",
                   target |-> ResolveTarget(ans.text, eligible_targets),
                   comms |-> IF Len(alive_wolves) > 1 THEN alive_wolves ELSE <<>>,
                   taken |-> TRUE, asked |-> <<alive_wolves[1]>>, err |-> stderr]
        ELSE [ret |-> "phase_complete", target |-> 0, comms |-> <<>>,
              taken |-> nightActionTaken, asked |-> <<>>, err |-> stderr]

\* the NightKillAction (or None, or PhaseCompleteAction) the night branch returns
NightResult(a) ==
    Ret("get_next_ai_action", [ret |-> a.ret, target |-> a.target, asked |-> a.asked,
                               comms |-> a.comms])

\* the SpeechAction (or None, or PhaseCompleteAction) the day branch returns
DayResult(a) ==
    Ret("get_next_ai_action", [ret |-> a.ret, player |-> a.player])

\* the agent calls a night action makes, and whether one of them raised
NightCallFailed(commFail, ans) ==
    /\ alive_wolves # <<>> /\ ~nightActionTaken
    /\ \/ Len(alive_wolves) > 1 /\ commFail # 0
       \/ alive_civilians # <<>> /\ ans.raised

\* execute_night_kill(target_name): the first roster player with that name
execute_night_kill(target_name) ==
    IF target_name \in Roster
    THEN /\ alive' = Killed(alive, target_name)
         /\ history' = Append(history, Msg("kill", target_name, 0))
         /\ events' = Distribute(events, Msg("kill", target_name, 0), 0,
                                 "night_kill", alive')
    ELSE UNCHANGED <<alive, history, events>>

----------------------------------------------------------------------------
(* Voting: GameState.vote_for_player, get_vote_results, reset_votes and       *)
(* WerewolfGame.run_voting_phase                                              *)

\* vote_for_player that does not take back the voter's previous vote
VoteForPlayerNoUndo(vr, vt, voter_id, target_id) ==
    IF /\ voter_id \in Roster /\ target_id \in Roster
       /\ alive[voter_id] /\ alive[target_id]
    THEN [vr |-> [vr EXCEPT ![target_id] = @ + 1],
          vt |-> [vt EXCEPT ![voter_id] = target_id]]
    ELSE [vr |-> vr, vt |-> vt]

\* vote_for_player that does not test is_alive
VoteForPlayerNoAliveCheck(vr, vt, voter_id, target_id) ==
    IF voter_id \in Roster /\ target_id \in Roster
    THEN LET vr1 == IF vt[voter_id] # 0
                    THEN [vr EXCEPT ![vt[voter_id]] = @ - 1]
                    ELSE vr
         IN  [vr |-> [vr1 EXCEPT ![target_id] = @ + 1],
              vt |-> [vt EXCEPT ![voter_id] = target_id]]
    ELSE [vr |-> vr, vt |-> vt]

\* vote_for_player on the tallies vr and the vote targets vt
vote_for_player(vr, vt, voter_id, target_id) ==
    IF /\ voter_id \in Roster /\ target_id \in Roster
       /\ alive[voter_id] /\ alive[target_id]
    THEN LET vr1 == IF vt[voter_id] # 0
                    THEN [vr EXCEPT ![vt[voter_id]] = @ - 1]
                    ELSE vr
         IN  [vr |-> [vr1 EXCEPT ![target_id] = @ + 1],
              vt |-> [vt EXCEPT ![voter_id] = target_id]]
    ELSE [vr |-> vr, vt |-> vt]

\* get_vote_results, with a tie taken as "nobody is eliminated"
MaxVotePlayersNoTie(vr, al) ==
    LET counted == AliveNonGodOf(al)
    IN  IF counted = {} THEN {}
        ELSE LET max_votes == CHOOSE m \in {vr[p] : p \in counted} :
                                  \A q \in counted : vr[q] <= m
                 leaders == {p \in counted : vr[p] = max_votes}
             IN  IF max_votes = 0 \/ Cardinality(leaders) > 1 THEN {}
                 ELSE leaders

\* get_vote_results, with a tie going to the first tied player of the roster
MaxVotePlayersFirst(vr, al) ==
    LET counted == AliveNonGodOf(al)
    IN  IF counted = {} THEN {}
        ELSE LET max_votes == CHOOSE m \in {vr[p] : p \in counted} :
                                  \A q \in counted : vr[q] <= m
                 leaders == {p \in counted : vr[p] = max_votes}
             IN  IF max_votes = 0 THEN {}
                 ELSE {CHOOSE p \in leaders : \A q \in leaders : p <= q}

\* get_vote_results: the players random.choice may return (empty: None)
MaxVotePlayers(vr, al) ==
    LET counted == AliveNonGodOf(al)
    IN  IF counted = {} THEN {}
        ELSE LET max_votes == CHOOSE m \in {vr[p] : p \in counted} :
                                  \A q \in counted : vr[q] <= m
             IN  IF max_votes = 0 THEN {}
                 ELSE {p \in counted : vr[p] = max_votes}

\* the "Collect votes" loop with an instruction that leaves voting_process out
RECURSIVE CollectVotesBlind(_, _, _, _, _)
CollectVotesBlind(voters, i, ans, failAt, st) ==
    IF i > Len(voters) \/ i = failAt THEN st
    ELSE LET voter == voters[i]
             vote_target == ResolveTarget(ans[i], voters)
             v == vote_for_player(st.vr, st.vt, voter, vote_target)
             vote_msg == Msg("vote", voter, vote_target)
         IN  CollectVotesBlind(voters, i + 1, ans, failAt,
                 [vr |-> v.vr, vt |-> v.vt,
                  hist |-> add_to_history(st.hist, vote_msg),
                  evs |-> Distribute(st.evs, vote_msg, voter, "public", alive),
                  votes |-> Append(st.votes, vote_msg),
                  shown |-> Append(st.shown, <<>>)])

\* the "Collect votes" loop from voter i on; failAt is the position of the voter
\* whose agent.step raises (0: none); shown lists, per voter asked, the
\* voting_process put in its instruction
RECURSIVE CollectVotes(_, _, _, _, _)
CollectVotes(voters, i, ans, failAt, st) ==
    IF i > Len(voters) \/ i = failAt THEN st
    ELSE LET voter == voters[i]
             vote_target == ResolveTarget(ans[i], voters)
             v == vote_for_player(st.vr, st.vt, voter, vote_target)
             vote_msg == Msg("vote", voter, vote_target)
         IN  CollectVotes(voters, i + 1, ans, failAt,
                 [vr |-> v.vr, vt |-> v.vt,
                  hist |-> add_to_history(st.hist, vote_msg),
                  evs |-> Distribute(st.evs, vote_msg, voter, "public", alive),
                  votes |-> Append(st.votes, vote_msg),
                  shown |-> Append(st.shown, st.votes)])

\* the state in which the "Collect votes" loop of a round starts
VoteStart ==
    [vr |-> votesReceived, vt |-> voteTarget, hist |-> history, evs |-> events,
     votes |-> <<>>, shown |-> <<>>]

\* the rest of run_voting_phase after the loop left st: the state the round
\* leaves and the VotingResult it returns.  pick is the player
\* get_vote_results returns (0: None).
FinishVoting(st, failAt, pick) ==
    LET al1 == IF pick # 0 THEN Killed(alive, pick) ELSE alive
        elimination_msg == Msg("elimination", pick, 0)
    IN  IF failAt \in 1..Len(SpeakingOrderOf(alive))
        THEN [alive |-> alive, vr |-> st.vr, vt |-> st.vt, hist |-> st.hist,
              evs |-> st.evs, queue |-> speakerQueue,
              sink |-> Notify(sink, "error", "Error in voting phase", 0),
              votes |-> <<>>, eliminated |-> 0, error |-> TRUE,
              shown |-> st.shown]
        ELSE [alive |-> al1,
              vr |-> [p \in Roster |-> 0],
              vt |-> [p \in Roster |-> 0],
              hist |-> IF pick # 0 THEN add_to_history(st.hist, elimination_msg)
                       ELSE st.hist,
              evs |-> IF pick # 0
                      THEN Distribute(st.evs, elimination_msg, 0, "elimination", al1)
                      ELSE st.evs,
              queue |-> IF pick # 0 THEN SpeakingOrderOf(al1) ELSE speakerQueue,
              sink |-> sink,
              votes |-> st.votes, eliminated |-> pick, error |-> FALSE,
              shown |-> st.shown]

\* the picks after the loop, with a tie reported as "no one was eliminated"
VotePicksTieNone(st, failAt) ==
    LET tied == MaxVotePlayers(st.vr, alive)
    IN  IF failAt \in 1..Len(SpeakingOrderOf(alive)) \/ Cardinality(tied) # 1
        THEN {0}
        ELSE tied
\* the picks get_vote_results can make after the loop left st
VotePicks(st, failAt) ==
    LET tied == MaxVotePlayers(st.vr, alive)
    IN  IF failAt \in 1..Len(SpeakingOrderOf(alive)) \/ tied = {} THEN {0}
        ELSE tied

\* run_voting_phase with the voters' answers ans, the failing voter failAt and
\* the tie-break pick
run_voting_phase(ans, failAt, pick) ==
    FinishVoting(CollectVotes(SpeakingOrderOf(alive), 1, ans, failAt, VoteStart),
                 failAt, pick)

\* the failure positions of one voting round, and the answers of the voters
\* that are asked (those before the failing one)
VoteFailPositions ==
    IF CanFail THEN 0..Len(SpeakingOrderOf(alive)) ELSE {0}
VoteAnswers(failAt) ==
    [1..(IF failAt = 0 THEN Len(SpeakingOrderOf(alive)) ELSE failAt - 1)
        -> AnswerTexts(SpeakingOrderOf(alive))]

\* every outcome run_voting_phase can have in the current state
VotingOutcomes ==
    UNION {UNION {{run_voting_phase(ans, failAt, pick) :
                      pick \in VotePicks(CollectVotes(SpeakingOrderOf(alive), 1,
                                             ans, failAt, VoteStart), failAt)} :
                  ans \in VoteAnswers(failAt)} :
           failAt \in VoteFailPositions}

----------------------------------------------------------------------------
(* The vote methods of GameState called directly, in any order, with        *)
(* kill_player in between; id 0 stands for a key that is not in the roster   *)

ApiVoteForPlayer ==
    /\ driver = "votes"
    /\ \E voter_id \in 0..Len(role), target_id \in 0..Len(role) :
          LET v == vote_for_player(votesReceived, voteTarget, voter_id, target_id)
          IN  /\ votesReceived' = v.vr
              /\ voteTarget' = v.vt
              /\ result' = Ret("vote_for_player",
                               [voter |-> voter_id, target |-> target_id,
                                previous |-> IF voter_id \in Roster
                                             THEN voteTarget[voter_id] ELSE 0])
    /\ UNCHANGED <<role, alive, currentPhase, dayCount, speakerQueue,
                   votingEnabled, history, nightActionTaken, events, sink,
                   stderr, driver, pc, winner, speakingRound, failures,
                   nightKills, spoken>>

\* get_vote_results: among is the list handed to random.choice, pick the
\* player returned (0: None)
ApiGetVoteResults ==
    /\ driver = "votes"
    /\ LET among == MaxVotePlayers(votesReceived, alive)
       IN  \E pick \in (IF among = {} THEN {0} ELSE among) :
              result' = Ret("get_vote_results", [pick |-> pick, among |-> among])
    /\ UNCHANGED <<gsVars, nightActionTaken, events, sink, stderr, driver, pc,
                   winner, speakingRound, failures, nightKills, spoken>>

ApiKillVoter ==
    /\ driver = "votes"
    /\ \E player_id \in Roster :
          /\ kill_player(player_id)
          /\ result' = Ret("kill_player", <<>>)
    /\ UNCHANGED <<role, votesReceived, voteTarget, currentPhase, dayCount,
                   votingEnabled, history, nightActionTaken, events, sink,
                   stderr, driver, pc, winner, speakingRound, failures,
                   nightKills, spoken>>

\* reset_votes that clears the tallies and leaves every vote_target
ResetVotesTalliesOnly ==
    /\ votesReceived' = [p \in Roster |-> 0]
    /\ UNCHANGED voteTarget

\* GameState.reset_votes: Player.reset_votes on every player
reset_votes ==
    /\ votesReceived' = [p \in Roster |-> 0]
    /\ voteTarget' = [p \in Roster |-> 0]

ApiResetVotes ==
    /\ driver = "votes"
    /\ reset_votes
    /\ result' = Ret("reset_votes", <<>>)
    /\ UNCHANGED <<role, alive, currentPhase, dayCount, speakerQueue,
                   votingEnabled, history, nightActionTaken, events, sink,
                   stderr, driver, pc, winner, speakingRound, failures,
                   nightKills, spoken>>
\* rosters with the moderator in second place and the wolves before the
\* civilians: the vote methods read of a role only whether it is the moderator
InitVotes ==
    /\ \E n \in MinPlayersCode..MaxVoteRoster :
          /\ GameStateInit(n)
          /\ role[2] = "god"
          /\ \A p, q \in 1..n : (p < q /\ role[q] = "wolf") => role[p] # "civilian"
    /\ IdleRest
    /\ driver = "votes"
    /\ pc = "votes"

NextVotes ==
    \/ ApiVoteForPlayer
    \/ ApiGetVoteResults
    \/ ApiKillVoter
    \/ ApiResetVotes

SpecVotes == InitVotes /\ [][NextVotes]_vars

----------------------------------------------------------------------------
(* Phase switches *)

\* GameState.switch_to_day
switch_to_day ==
    /\ currentPhase' = "day"
    /\ dayCount' = dayCount + 1
    /\ speakerQueue' = SpeakingOrderOf(alive)
    /\ votingEnabled' = (dayCount' > 1)

\* transition_to_day that leaves day_count as it is
TransitionToDayNoCount(al, evs) ==
    /\ currentPhase' = "day"
    /\ dayCount' = dayCount
    /\ speakerQueue' = SpeakingOrderOf(al)
    /\ nightActionTaken' = FALSE
    /\ events' = Distribute(evs, Msg("day_begins", 0, 0), 0, "day_transition", al)
    /\ UNCHANGED votingEnabled
\* WerewolfGame.transition_to_day
transition_to_day(al, evs) ==
    /\ currentPhase' = "day"
    /\ dayCount' = dayCount + 1
    /\ speakerQueue' = SpeakingOrderOf(al)
    /\ nightActionTaken' = FALSE
    /\ events' = Distribute(evs, Msg("day_begins", 0, 0), 0, "day_transition", al)
    /\ UNCHANGED votingEnabled

\* WerewolfGame.transition_to_night
transition_to_night(al, evs) ==
    /\ currentPhase' = "night"
    /\ events' = Distribute(evs, Msg("night_falls", 0, 0), 0, "day_transition", al)

\* the VotingResult run_voting_phase returns, with what the voters were shown
VotingResult(v) ==
    Ret("run_voting_phase", [votes |-> v.votes, eliminated |-> v.eliminated,
                             error |-> v.error, shown |-> v.shown])

\* the outcomes of one agent call whose text does not matter
CallOutcomes == IF CanFail THEN {"ok", FAIL} ELSE {"ok"}
\* the outcomes of one agent call that names a target
TargetOutcomes ==
    {[raised |-> FALSE, text |-> t] : t \in AnswerTexts(alive_civilians)}
        \cup (IF CanFail THEN {[raised |-> TRUE, text |-> {}]} ELSE {})

----------------------------------------------------------------------------
(* The night primitives called directly on a GameState whose players are     *)
(* killed in any order: switch_to_night, get_next_ai_action in the Night     *)
(* phase and, as its callers do, execute_night_kill on a NightKillAction     *)

ApiKillBeforeNight ==
    /\ driver = "night"
    /\ \E player_id \in Roster :
          /\ kill_player(player_id)
          /\ result' = Ret("kill_player", <<>>)
    /\ UNCHANGED <<role, votesReceived, voteTarget, currentPhase, dayCount,
                   votingEnabled, history, nightActionTaken, events, sink,
                   stderr, driver, pc, winner, speakingRound, failures,
                   nightKills, spoken>>

\* GameState.switch_to_night
ApiSwitchToNight ==
    /\ driver = "night" /\ currentPhase = "day"
    /\ currentPhase' = "night"
    /\ result' = Ret("switch_to_night", <<>>)
    /\ UNCHANGED <<role, alive, votesReceived, voteTarget, dayCount,
                   speakerQueue, votingEnabled, history, nightActionTaken,
                   events, sink, stderr, driver, pc, winner, speakingRound,
                   failures, nightKills, spoken>>

ApiNightAction ==
    /\ driver = "night" /\ currentPhase = "night"
    /\ \E commFail \in (IF CanFail THEN 0..Len(alive_wolves) ELSE {0}),
          ans \in TargetOutcomes :
          LET a == get_next_ai_action_night(commFail, ans)
              failed == NightCallFailed(commFail, ans)
          IN  /\ (commFail # 0 \/ ans.raised) => failed
              /\ ~(commFail # 0 /\ ans.raised)
              /\ nightActionTaken' = a.taken
              /\ stderr' = a.err
              /\ failures' = IF failed THEN failures + 1 ELSE failures
              /\ result' = NightResult(a)
              /\ IF a.ret = "night_kill"
                 THEN /\ execute_night_kill(a.target)
                      /\ nightKills' = nightKills + 1
                 ELSE UNCHANGED <<alive, history, events, nightKills>>
    /\ UNCHANGED <<role, votesReceived, voteTarget, currentPhase, dayCount,
                   speakerQueue, votingEnabled, sink, driver, pc, winner,
                   speakingRound, spoken>>

\* rosters of one wolf and of two wolves, with a civilian, the moderator and a
\* wolf in the first three places; a second wolf comes right after the first
\* or last in the roster
InitNight ==
    /\ \E n \in {MinPlayersCode, TwoWolfRoster} :
          /\ GameStateInit(n)
          /\ role[1] = "civilian" /\ role[2] = "god" /\ role[3] = "wolf"
          /\ NumWolves(n) > 1 => (role[4] = "wolf" \/ role[n] = "wolf")
    /\ IdleRest
    /\ driver = "night"
    /\ pc = "night"

NextNight ==
    \/ ApiKillBeforeNight
    \/ ApiSwitchToNight
    \/ ApiNightAction

SpecNight == InitNight /\ [][NextNight]_vars

----------------------------------------------------------------------------
(* _distribute_event_to_agents called directly, with the event text.  A text *)
(* is a sequence of words: a player's name, a player's name followed by a    *)
(* colon, or a plain word.  Names are whole words and "voted for" is one.    *)

Name(p) == [name |-> p, w |-> ""]
NameColon(p) == [name |-> p, w |-> ":"]
Plain(w) == [name |-> 0, w |-> w]
\* add_to_history on a text: the "Day d (phase): " prefix comes first
add_text_to_history(h, text) == Append(h, <<Plain("Day d (phase):")>> \o text)

\* str.replace(f"{speaker} <next>", f"You <next>"): every occurrence
ReplaceBefore(event, speaker, next) ==
    [i \in DOMAIN event |->
        IF event[i] = Name(speaker) /\ i < Len(event) /\ event[i + 1] = Plain(next)
        THEN Plain("You") ELSE event[i]]

\* str.replace(speaker, "You", 1): the first occurrence only
ReplaceFirst(event, speaker) ==
    LET hits == {i \in DOMAIN event : event[i].name = speaker}
    IN  IF hits = {} THEN event
        ELSE LET first == CHOOSE i \in hits : \A j \in hits : i <= j
             IN  [event EXCEPT ![first] =
                     Plain(IF event[first].w = ":" THEN "You:" ELSE "You")]

\* the text the speaker's own agent gets
FirstPerson(event, speaker) ==
    IF \E i \in DOMAIN event : event[i] = Plain("said:")
    THEN ReplaceBefore(event, speaker, "said:")
    ELSE IF \E i \in DOMAIN event : event[i] = Plain("voted for")
    THEN ReplaceBefore(event, speaker, "voted for")
    ELSE ReplaceFirst(event, speaker)

\* the add_event calls of one distribution, in roster order; speaker 0 is None
distribute_event_to_agents(event, speaker, type, al) ==
    LET to == InOrder(Recipients(type, al), Len(role))
    IN  [i \in 1..Len(to) |->
            [to |-> to[i],
             text |-> IF speaker # 0 /\ to[i] = speaker
                      THEN FirstPerson(event, speaker) ELSE event]]

EventTypes ==
    {"public", "wolf_private", "elimination", "game_state", "night_kill",
     "day_transition", "day_number_change"}

\* what an agent may say: up to MaxSpeechLen words
SpeechWords == {Plain("said:"), Plain("voted for"), Plain("hi")} \cup {Name(q) : q \in Roster}
Speeches == UNION {[1..k -> SpeechWords] : k \in 0..MaxSpeechLen}

Distributed(event, speaker, type) ==
    Ret("_distribute_event_to_agents", [event |-> event, speaker |-> speaker, type |-> type])

ApiKillRecipient ==
    /\ driver = "distribute"
    /\ \E player_id \in Roster :
          /\ kill_player(player_id)
          /\ result' = Ret("kill_player", player_id)
    /\ UNCHANGED <<role, votesReceived, voteTarget, currentPhase, dayCount,
                   votingEnabled, history, nightActionTaken, events, sink,
                   stderr, driver, pc, winner, speakingRound, failures,
                   nightKills, spoken>>

\* a call with any event type and any speaker; history and events hold what
\* the last call appended
ApiDistribute ==
    /\ driver = "distribute"
    /\ \E type \in EventTypes, speaker \in 0..Len(role) :
          LET event == IF speaker = 0 THEN <<Plain("hi")>>
                       ELSE <<Name(speaker), Plain("hi")>>
          IN  /\ events' = distribute_event_to_agents(event, speaker, type, alive)
              /\ result' = Distributed(event, speaker, type)
    /\ history' = NewPhaseLog
    /\ UNCHANGED <<role, alive, votesReceived, voteTarget, currentPhase, dayCount,
                   speakerQueue, votingEnabled, nightActionTaken, sink, stderr,
                   driver, pc, winner, speakingRound, failures, nightKills, spoken>>

\* the speech of the day branch: "<name>: <speech>" goes to the history as it
\* is and to the alive players as a public event
ApiSpeech ==
    /\ driver = "distribute" /\ speakerQueue # <<>>
    /\ \E k \in DOMAIN speakerQueue, speech \in Speeches :
          LET current_speaker == speakerQueue[k]
              speech_event == <<NameColon(current_speaker)>> \o speech
          IN  /\ history' = Append(NewPhaseLog, speech_event)
              /\ events' = distribute_event_to_agents(speech_event, current_speaker,
                                                      "public", alive)
              /\ result' = Distributed(speech_event, current_speaker, "public")
    /\ UNCHANGED <<role, alive, votesReceived, voteTarget, currentPhase, dayCount,
                   speakerQueue, votingEnabled, nightActionTaken, sink, stderr,
                   driver, pc, winner, speakingRound, failures, nightKills, spoken>>

\* the vote message of run_voting_phase: "<voter> voted for <target>"
ApiVoteMsg ==
    /\ driver = "distribute"
    /\ \E voter \in AliveNonGodOf(alive), vote_target \in AliveNonGodOf(alive) :
          LET vote_msg == <<Name(voter), Plain("voted for"), Name(vote_target)>>
          IN  /\ history' = add_text_to_history(NewPhaseLog, vote_msg)
              /\ events' = distribute_event_to_agents(vote_msg, voter, "public", alive)
              /\ result' = Distributed(vote_msg, voter, "public")
    /\ UNCHANGED <<role, alive, votesReceived, voteTarget, currentPhase, dayCount,
                   speakerQueue, votingEnabled, nightActionTaken, sink, stderr,
                   driver, pc, winner, speakingRound, failures, nightKills, spoken>>

\* rosters with a civilian, the moderator and the wolf in the first three places
InitDistribute ==
    /\ \E n \in MinPlayersCode..MaxTextRoster :
          /\ GameStateInit(n)
          /\ role[1] = "civilian" /\ role[2] = "god" /\ role[3] = "wolf"
    /\ IdleRest
    /\ driver = "distribute"
    /\ pc = "distribute"

NextDistribute ==
    \/ ApiKillRecipient
    \/ ApiDistribute
    \/ ApiSpeech
    \/ ApiVoteMsg

SpecDistribute == InitDistribute /\ [][NextDistribute]_vars

----------------------------------------------------------------------------
(* GameState(num_players): the range test, then _initialize_players with the *)
(* names faker returns.  players is a dict keyed by name: a name drawn again *)
(* keeps the place of its first entry and takes the Player of the last.      *)

\* the names of n draws, a draw being the name of the draw before it at most
\* MaxCollisions times; the name of a first draw is its index
RECURSIVE NameDraws(_, _)
NameDraws(n, c) ==
    IF n = 0 THEN {<<>>}
    ELSE {Append(d, n) : d \in NameDraws(n - 1, c)}
            \cup (IF c = 0 \/ n = 1 THEN {}
                  ELSE {Append(d, d[n - 1]) : d \in NameDraws(n - 1, c - 1)})

\* the values of the players dict, in key order, for roles[i] given to names[i]
PlayersDict(roles, names) ==
    LET n == Len(names)
        keys == InOrder({i \in 1..n : \A j \in 1..(i - 1) : names[j] # names[i]}, n)
        last(k) == CHOOSE i \in 1..n :
                      /\ names[i] = names[k]
                      /\ \A j \in (i + 1)..n : names[j] # names[k]
    IN  [k \in 1..Len(keys) |-> roles[last(keys[k])]]

Created(n, raised) == Ret("GameState", [num_players |-> n, raised |-> raised])

CreateGameState ==
    /\ driver = "create" /\ pc = "new"
    /\ LET num_players == result.ret
       IN  IF num_players < MinPlayersCode \/ num_players > MaxPlayersCode
           THEN /\ result' = Created(num_players, TRUE)
                /\ pc' = "raised"
                /\ UNCHANGED gsVars
           ELSE \E roles \in RoleLists(num_players),
                   names \in NameDraws(num_players, MaxCollisions) :
                   /\ role' = PlayersDict(roles, names)
                   /\ alive' = [p \in DOMAIN role' |-> TRUE]
                   /\ votesReceived' = [p \in DOMAIN role' |-> 0]
                   /\ voteTarget' = [p \in DOMAIN role' |-> 0]
                   /\ currentPhase' = "day"
                   /\ dayCount' = 1
                   /\ speakerQueue' = InOrder({p \in DOMAIN role' : role'[p] # "god"},
                                              Len(role'))
                   /\ votingEnabled' = FALSE
                   /\ history' = <<>>
                   /\ result' = Created(num_players, FALSE)
                   /\ pc' = "created"
    /\ UNCHANGED <<nightActionTaken, events, sink, stderr, driver, winner,
                   speakingRound, failures, nightKills, spoken>>

\* before the constructor runs: no field is set, num_players is the argument
InitCreate ==
    /\ role = <<>> /\ alive = <<>> /\ votesReceived = <<>> /\ voteTarget = <<>>
    /\ currentPhase = "" /\ dayCount = 0 /\ speakerQueue = <<>>
    /\ votingEnabled = FALSE /\ history = <<>>
    /\ nightActionTaken = FALSE /\ events = <<>> /\ sink = <<>> /\ stderr = <<>>
    /\ winner = "" /\ speakingRound = 0 /\ failures = 0 /\ nightKills = 0
    /\ spoken = <<>>
    /\ \E num_players \in 0..MaxRequest : result = Ret("num_players", num_players)
    /\ driver = "create"
    /\ pc = "new"

NextCreate == CreateGameState

SpecCreate == InitCreate /\ [][NextCreate]_vars

----------------------------------------------------------------------------
(* The HTTP host: POST /start creates a run_game_loop task for the game id,  *)
(* each task runs get_next_ai_action on an executor thread, and POST /action *)
(* appends to game_history on the event loop.  pc[t] is the position of the  *)
(* t-th task; a call on a worker thread begins (the speaker is taken from    *)
(* the queue, agent.step runs) and ends (the speech is recorded) in two      *)
(* steps, any other task or request running in between.                      *)

Tasks == 1..MaxLoops
TaskAt(at, speaker) == [at |-> at, speaker |-> speaker]
InCall == {t \in Tasks : pc[t].at = "in_call"}

\* start_game: asyncio.create_task(run_game_loop(game_id)), whatever runs already
ServerStartGame ==
    /\ driver = "server"
    /\ \E t \in Tasks :
          /\ pc[t].at = "off" /\ \A u \in 1..(t - 1) : pc[u].at # "off"
          /\ pc' = [pc EXCEPT ![t] = TaskAt("loop", 0)]
          /\ result' = Ret("start_game", t)
    /\ UNCHANGED <<gsVars, nightActionTaken, events, sink, stderr, driver, winner,
                   speakingRound, failures, nightKills, spoken>>

\* run_in_executor(None, game.get_next_ai_action), Day branch, up to agent.step
ServerCallBegin ==
    /\ driver = "server" /\ currentPhase = "day" /\ speakerQueue # <<>>
    /\ \E t \in Tasks :
          /\ pc[t].at = "loop"
          /\ pc' = [pc EXCEPT ![t] = TaskAt("in_call", Head(speakerQueue))]
          /\ result' = Ret("get_next_speaker", t)
    /\ speakerQueue' = Tail(speakerQueue)
    /\ UNCHANGED <<role, alive, votesReceived, voteTarget, currentPhase, dayCount,
                   votingEnabled, history, nightActionTaken, events, sink, stderr,
                   driver, winner, speakingRound, failures, nightKills, spoken>>

\* the rest of the call: the speech goes to game_history and to the agents
ServerCallEnd ==
    /\ driver = "server"
    /\ \E t \in InCall :
          LET speech_event == Msg("speech", pc[t].speaker, 0)
          IN  /\ history' = Append(history, speech_event)
              /\ events' = Distribute(events, speech_event, pc[t].speaker,
                                      "public", alive)
              /\ pc' = [pc EXCEPT ![t] = TaskAt("loop", 0)]
              /\ result' = Ret("get_next_ai_action", t)
    /\ UNCHANGED <<role, alive, votesReceived, voteTarget, currentPhase, dayCount,
                   speakerQueue, votingEnabled, nightActionTaken, sink, stderr,
                   driver, winner, speakingRound, failures, nightKills, spoken>>

\* player_action with action_type "speak": game_history.append on the event loop
ServerPlayerAction ==
    /\ driver = "server"
    /\ Cardinality({k \in DOMAIN history : history[k].kind = "player_action"})
          < MaxActionRequests
    /\ \E player \in Roster :
          /\ history' = Append(history, Msg("player_action", player, 0))
          /\ result' = Ret("player_action", player)
    /\ UNCHANGED <<role, alive, votesReceived, voteTarget, currentPhase, dayCount,
                   speakerQueue, votingEnabled, nightActionTaken, events, sink,
                   stderr, driver, pc, winner, speakingRound, failures,
                   nightKills, spoken>>

InitServer ==
    /\ \E n \in MinPlayersCode..MaxServerRoster :
          /\ GameStateInit(n)
          /\ role[1] = "civilian" /\ role[2] = "god" /\ role[3] = "wolf"
    /\ IdleRest
    /\ driver = "server"
    /\ pc = [t \in Tasks |-> TaskAt("off", 0)]

NextServer ==
    \/ ServerStartGame
    \/ ServerCallBegin
    \/ ServerCallEnd
    \/ ServerPlayerAction

SpecServer == InitServer /\ [][NextServer]_vars

----------------------------------------------------------------------------
(* WerewolfGame.run_game *)

RunGameStart ==
    /\ driver = "run_game" /\ pc = "start"
    /\ sink' = sink \o << [cat |-> "game_announcement", tag |-> "starting", player |-> 0],
                          [cat |-> "game_state", tag |-> "wolves", player |-> 0],
                          [cat |-> "game_state", tag |-> "civilians", player |-> 0],
                          [cat |-> "game_state", tag |-> "god", player |-> 0],
                          [cat |-> "game_state", tag |-> "total", player |-> 0] >>
    /\ pc' = "day"
    /\ UNCHANGED <<gsVars, nightActionTaken, events, stderr, driver, winner,
                   speakingRound, failures, nightKills, spoken, result>>

\* the day entry events with the day-transition event on every day
DayEntryEventsAlways(evs) ==
    LET e1 == Distribute(evs, Msg("day_arrived", 0, 0), 0, "day_number_change", alive)
        e2 == Distribute(e1, Msg("night_ended", 0, 0), 0, "day_transition", alive)
    IN  Distribute(e2, Msg("day_begins_alive", 0, 0), 0, "game_state", alive)

\* run_day_phase: "Day d has arrived.", "Night has ended. ..." after day 1,
\* "Day d begins. Current alive players: ..."
DayEntryEvents(evs) ==
    LET e1 == Distribute(evs, Msg("day_arrived", 0, 0), 0, "day_number_change", alive)
        e2 == IF dayCount > 1
              THEN Distribute(e1, Msg("night_ended", 0, 0), 0, "day_transition", alive)
              ELSE e1
    IN  Distribute(e2, Msg("day_begins_alive", 0, 0), 0, "game_state", alive)

\* run_day_phase up to the first get_next_ai_action of the speaking phase
RunDayPhase ==
    /\ driver = "run_game" /\ pc = "day" /\ dayCount <= MaxDay
    /\ \E announce \in CallOutcomes :
          LET s1 == Notify(NewPhaseLog, "phase_transition", "day_header", 0)
          IN  /\ events' = DayEntryEvents(NewPhaseLog)
              /\ IF announce = FAIL
                 THEN /\ sink' = s1
                      /\ pc' = "crashed"
                      /\ failures' = failures + 1
                 ELSE /\ sink' = s1 \o
                         << [cat |-> "game_announcement", tag |-> "day_start", player |-> God],
                            [cat |-> "phase_transition", tag |-> "speaking_phase", player |-> 0],
                            [cat |-> "phase_transition", tag |-> "speaking_round", player |-> 0] >>
                      /\ pc' = "speaking"
                      /\ UNCHANGED failures
    /\ spoken' = <<>>
    /\ history' = NewPhaseLog
    /\ stderr' = NewPhaseLog
    /\ result' = NoResult
    /\ UNCHANGED <<role, alive, votesReceived, voteTarget, currentPhase,
                   dayCount, speakerQueue, votingEnabled, nightActionTaken,
                   driver, winner, speakingRound, nightKills>>

\* one pass of the while loop of _run_speaking_phase_with_ai; when the loop
\* breaks, run_day_phase goes on to the voting phase if voting is enabled
RunSpeak ==
    /\ driver = "run_game" /\ pc = "speaking" /\ currentPhase = "day"
    /\ \E ans \in CallOutcomes :
          LET a == get_next_ai_action_day(ans)
          IN  /\ ans = FAIL => a.ret = "none"
              /\ speakerQueue' = a.queue
              /\ history' = a.hist
              /\ events' = a.evs
              /\ stderr' = a.err
              /\ failures' = IF ans = FAIL THEN failures + 1 ELSE failures
              /\ result' = DayResult(a)
              /\ IF a.ret = "speech"
                 THEN /\ sink' = Notify(sink, "player_speech", "speech", a.player)
                      /\ spoken' = Append(spoken, a.player)
                      /\ pc' = "speaking"
                 ELSE /\ UNCHANGED <<sink, spoken>>
                      /\ pc' = IF votingEnabled THEN "voting" ELSE "check_day"
    /\ UNCHANGED <<role, alive, votesReceived, voteTarget, currentPhase,
                   dayCount, votingEnabled, nightActionTaken, driver, winner,
                   speakingRound, nightKills>>

\* the voting phase of run_day_phase
RunVoting ==
    /\ driver = "run_game" /\ pc = "voting"
    /\ \E v \in VotingOutcomes :
              /\ alive' = v.alive
              /\ votesReceived' = v.vr
              /\ voteTarget' = v.vt
              /\ history' = v.hist
              /\ events' = v.evs
              /\ speakerQueue' = v.queue
              /\ failures' = IF v.error THEN failures + 1 ELSE failures
              /\ result' = VotingResult(v)
              /\ sink' = IF v.eliminated # 0
                         THEN Notify(v.sink, "elimination", "eliminated", 0)
                         ELSE Notify(v.sink, "voting", "no_elimination", 0)
    /\ pc' = "check_day"
    /\ UNCHANGED <<role, currentPhase, dayCount, votingEnabled,
                   nightActionTaken, stderr, driver, winner, speakingRound,
                   nightKills, spoken>>

\* "Check game over after day" without the break: the night always runs
RunCheckDayNoBreak ==
    /\ driver = "run_game" /\ pc = "check_day"
    /\ winner' = check_game_over(alive)[2]
    /\ pc' = "night"
    /\ UNCHANGED <<gsVars, nightActionTaken, events, sink, stderr, driver,
                   speakingRound, failures, nightKills, spoken, result>>

\* "Check game over after day"
RunCheckDay ==
    /\ driver = "run_game" /\ pc = "check_day"
    /\ LET r == check_game_over(alive)
       IN  /\ winner' = r[2]
           /\ pc' = IF r[1] THEN "game_over" ELSE "night"
    /\ UNCHANGED <<gsVars, nightActionTaken, events, sink, stderr, driver,
                   speakingRound, failures, nightKills, spoken, result>>

\* run_night_phase up to the moderator's announcement
RunNightPhase ==
    /\ driver = "run_game" /\ pc = "night"
    /\ currentPhase' = "night"
    /\ \E announce \in CallOutcomes :
          LET e1 == Distribute(NewPhaseLog, Msg("day_ended", 0, 0), 0,
                               "day_transition", alive)
              e2 == Distribute(e1, Msg("night_begins", 0, 0), 0,
                               "game_state", alive)
              s1 == Notify(NewPhaseLog, "phase_transition", "night_header", 0)
          IN  /\ events' = e2
              /\ IF announce = FAIL
                 THEN /\ sink' = s1
                      /\ pc' = "crashed"
                      /\ failures' = failures + 1
                 ELSE /\ sink' = Notify(s1, "game_announcement", "night_start", God)
                      /\ pc' = "night_action"
                      /\ UNCHANGED failures
    /\ nightKills' = 0
    /\ history' = NewPhaseLog
    /\ stderr' = NewPhaseLog
    /\ result' = NoResult
    /\ UNCHANGED <<role, alive, votesReceived, voteTarget, dayCount,
                   speakerQueue, votingEnabled, nightActionTaken,
                   driver, winner, speakingRound, spoken>>

\* the "night actions" part of run_night_phase
RunNightAction ==
    /\ driver = "run_game" /\ pc = "night_action" /\ currentPhase = "night"
    /\ IF alive_wolves # <<>>
       THEN \E commFail \in (IF CanFail THEN 0..Len(alive_wolves) ELSE {0}),
               ans \in TargetOutcomes :
               LET a == get_next_ai_action_night(commFail, ans)
                   failed == NightCallFailed(commFail, ans)
               IN  /\ (commFail # 0 \/ ans.raised) => failed
                   /\ ~(commFail # 0 /\ ans.raised)
                   /\ nightActionTaken' = a.taken
                   /\ stderr' = a.err
                   /\ failures' = IF failed THEN failures + 1 ELSE failures
                   /\ result' = NightResult(a)
                   /\ IF a.ret = "night_kill"
                      THEN /\ execute_night_kill(a.target)
                           /\ nightKills' = nightKills + 1
                           /\ sink' = (IF a.comms # <<>>
                                       THEN Notify(sink, "wolf_communication", "comms", 0)
                                       ELSE sink)
                                      \o << [cat |-> "night_kill", tag |-> "victim",
                                             player |-> 0] >>
                      ELSE UNCHANGED <<alive, history, events, sink, nightKills>>
       ELSE UNCHANGED <<alive, history, events, sink, nightKills,
                        nightActionTaken, stderr, failures, result>>
    /\ pc' = "switch_to_day"
    /\ UNCHANGED <<role, votesReceived, voteTarget, currentPhase, dayCount,
                   speakerQueue, votingEnabled, driver, winner, speakingRound,
                   spoken>>

\* the end of run_night_phase and "Check game over after night"
RunSwitchToDay ==
    /\ driver = "run_game" /\ pc = "switch_to_day"
    /\ switch_to_day
    /\ LET r == check_game_over(alive)
       IN  /\ winner' = r[2]
           /\ pc' = IF r[1] THEN "game_over" ELSE "day"
    /\ UNCHANGED <<role, alive, votesReceived, voteTarget, history,
                   nightActionTaken, events, sink, stderr, driver,
                   speakingRound, failures, nightKills, spoken, result>>

\* a role reveal notification: "<name>: <role> (<Alive|Dead>)"
RoleReveal(n) ==
    [cat |-> "game_state", tag |-> "role_reveal", player |-> n,
     role |-> role[n], status |-> IF alive[n] THEN "Alive" ELSE "Dead"]

\* the role reveal with the dead players left out
RECURSIVE RevealAlive(_, _)
RevealAlive(s, n) ==
    IF n = 0 THEN s
    ELSE IF is_god(n) \/ ~alive[n] THEN RevealAlive(s, n - 1)
    ELSE Append(RevealAlive(s, n - 1), RoleReveal(n))

\* the role reveal: one notification per non-moderator player, roster order
RECURSIVE Reveal(_, _)
Reveal(s, n) ==
    IF n = 0 THEN s
    ELSE IF is_god(n) THEN Reveal(s, n - 1)
    ELSE Append(Reveal(s, n - 1), RoleReveal(n))

\* "Game over": the moderator's announcement and the final role reveal
RunGameOver ==
    /\ driver = "run_game" /\ pc = "game_over"
    /\ \E announce \in CallOutcomes :
          IF announce = FAIL
          THEN /\ pc' = "crashed"
               /\ failures' = failures + 1
               /\ UNCHANGED sink
          ELSE /\ pc' = "done"
               /\ sink' = Reveal(sink \o
                    << [cat |-> "game_announcement", tag |-> "game_over", player |-> 0,
                        winner |-> winner],
                       [cat |-> "game_state", tag |-> "reveal_header", player |-> 0] >>,
                    Len(role))
               /\ UNCHANGED failures
    /\ UNCHANGED <<gsVars, nightActionTaken, events, stderr, driver, winner,
                   speakingRound, nightKills, spoken, result>>

----------------------------------------------------------------------------
(* GameService.run_game_loop: one action per pass of its while loop *)

\* "Check win conditions" at the top of the loop
LoopWinner ==
    IF Len(alive_wolves) = 0 THEN "villagers"
    ELSE IF Len(alive_wolves) >= Len(alive_civilians) THEN "wolves"
    ELSE ""

LoopGameOver ==
    /\ driver = "run_game_loop" /\ pc = "loop"
    /\ LoopWinner # ""
    /\ winner' = LoopWinner
    /\ pc' = "done"
    /\ UNCHANGED <<gsVars, nightActionTaken, events, sink, stderr, driver,
                   speakingRound, failures, nightKills, spoken, result>>

\* a pass in the Day phase
LoopDay ==
    /\ driver = "run_game_loop" /\ pc = "loop"
    /\ LoopWinner = ""
    /\ currentPhase = "day" /\ dayCount <= MaxDay
    /\ \E ans \in CallOutcomes :
          LET a == get_next_ai_action_day(ans)
          IN  /\ ans = FAIL => a.ret = "none"
              /\ stderr' = a.err
              /\ IF a.ret = "phase_complete" /\ speakingRound >= MaxSpeakingRounds
                 THEN \* run the voting phase, then transition to night
                      \E v \in VotingOutcomes :
                             /\ alive' = v.alive
                             /\ votesReceived' = v.vr
                             /\ voteTarget' = v.vt
                             /\ history' = v.hist
                             /\ speakerQueue' = v.queue
                             /\ sink' = v.sink
                             /\ failures' = IF v.error THEN failures + 1 ELSE failures
                             /\ result' = VotingResult(v)
                             /\ transition_to_night(v.alive, v.evs)
                             /\ speakingRound' = 0
                             /\ nightKills' = 0
                             /\ UNCHANGED spoken
                 ELSE /\ history' = a.hist
                      /\ events' = a.evs
                      /\ failures' = IF ans = FAIL THEN failures + 1 ELSE failures
                      /\ result' = DayResult(a)
                      /\ speakerQueue' = IF a.ret = "phase_complete"
                                         THEN SpeakingOrderOf(alive)
                                         ELSE a.queue
                      /\ speakingRound' = IF a.ret = "speech"
                                          THEN speakingRound + 1
                                          ELSE speakingRound
                      /\ spoken' = IF a.ret = "speech"
                                   THEN Append(spoken, a.player)
                                   ELSE spoken
                      /\ UNCHANGED <<alive, votesReceived, voteTarget, sink,
                                     currentPhase, nightKills>>
    /\ UNCHANGED <<role, dayCount, votingEnabled, nightActionTaken, driver, pc,
                   winner>>

\* a pass in the Night phase
LoopNight ==
    /\ driver = "run_game_loop" /\ pc = "loop"
    /\ LoopWinner = ""
    /\ currentPhase # "day"
    /\ \E commFail \in (IF CanFail THEN 0..Len(alive_wolves) ELSE {0}),
          ans \in TargetOutcomes :
          LET a == get_next_ai_action_night(commFail, ans)
              failed == NightCallFailed(commFail, ans)
          IN  /\ (commFail # 0 \/ ans.raised) => failed
              /\ ~(commFail # 0 /\ ans.raised)
              /\ failures' = IF failed THEN failures + 1 ELSE failures
              /\ result' = NightResult(a)
              /\ IF a.ret = "night_kill"
                 THEN /\ alive' = (IF a.target \in Roster
                                   THEN Killed(alive, a.target) ELSE alive)
                      /\ history' = (IF a.target \in Roster
                                     THEN Append(NewPhaseLog, Msg("kill", a.target, 0))
                                     ELSE NewPhaseLog)
                      /\ nightKills' = nightKills + 1
                      /\ transition_to_day(alive',
                            IF a.target \in Roster
                            THEN Distribute(NewPhaseLog, Msg("kill", a.target, 0), 0,
                                            "night_kill", alive')
                            ELSE NewPhaseLog)
                      /\ spoken' = <<>>
                      /\ sink' = NewPhaseLog
                      /\ stderr' = NewPhaseLog
                 ELSE IF a.ret = "phase_complete"
                 THEN /\ transition_to_day(alive, NewPhaseLog)
                      /\ spoken' = <<>>
                      /\ history' = NewPhaseLog
                      /\ sink' = NewPhaseLog
                      /\ stderr' = NewPhaseLog
                      /\ UNCHANGED <<alive, nightKills>>
                 ELSE /\ nightActionTaken' = a.taken
                      /\ stderr' = a.err
                      /\ UNCHANGED <<alive, history, nightKills, events, sink,
                                     currentPhase, dayCount, speakerQueue,
                                     votingEnabled, spoken>>
    /\ UNCHANGED <<role, votesReceived, voteTarget, driver, pc, winner,
                   speakingRound>>

----------------------------------------------------------------------------
(* The game, from construction, under either driver *)

Init ==
    /\ \E n \in MinPlayers..MaxPlayers : GameStateInit(n)
    /\ IdleRest
    /\ driver \in {"run_game", "run_game_loop"}
    /\ pc = IF driver = "run_game" THEN "start" ELSE "loop"

Next ==
    \/ RunGameStart
    \/ RunDayPhase
    \/ RunSpeak
    \/ RunVoting
    \/ RunCheckDay
    \/ RunNightPhase
    \/ RunNightAction
    \/ RunSwitchToDay
    \/ RunGameOver
    \/ LoopGameOver
    \/ LoopDay
    \/ LoopNight

Spec == Init /\ [][Next]_vars

----------------------------------------------------------------------------
(* Claims about check_game_over *)

NumAliveWolves == Cardinality(AliveWolvesOf(alive))
NumAliveCivilians == Cardinality(AliveCiviliansOf(alive))
Checked == result.call = "check_game_over"

\* C1: on a state with an alive wolf or an alive civilian, check_game_over
\* returns (True, "Civilians") exactly when no wolf is alive, (True, "Wolves")
\* exactly when a wolf is alive and alive wolves >= alive civilians, and
\* (False, "") in every other case.
C1_CheckGameOverTable ==
    (Checked /\ (NumAliveWolves > 0 \/ NumAliveCivilians > 0)) =>
        /\ (result.ret = <<TRUE, "Civilians">>) <=> (NumAliveWolves = 0)
        /\ (result.ret = <<TRUE, "Wolves">>) <=>
               (NumAliveWolves > 0 /\ NumAliveWolves >= NumAliveCivilians)
        /\ (result.ret = <<FALSE, "">>) <=>
               (NumAliveWolves > 0 /\ NumAliveWolves < NumAliveCivilians)
        /\ result.ret \in {<<TRUE, "Civilians">>, <<TRUE, "Wolves">>, <<FALSE, "">>}

\* witness of C1: the check ran on one wolf against one civilian (equality)
C1_Witness ==
    Checked /\ NumAliveWolves = 1 /\ NumAliveCivilians = 1
            /\ result.ret = <<TRUE, "Wolves">>

\* C2 as stated: with no wolf and no civilian alive, check_game_over returns
\* (True, "Wolves").
C2_WipeIsWolves ==
    (Checked /\ NumAliveWolves = 0 /\ NumAliveCivilians = 0) =>
        result.ret = <<TRUE, "Wolves">>

\* C2 amended: with no wolf and no civilian alive, check_game_over returns
\* (True, "Civilians"): the no-wolf test comes first.
C2_WipeIsCivilians ==
    (Checked /\ NumAliveWolves = 0 /\ NumAliveCivilians = 0) =>
        result.ret = <<TRUE, "Civilians">>

\* witness of C2: the check ran after every wolf and every civilian was killed
C2_Witness ==
    Checked /\ NumAliveWolves = 0 /\ NumAliveCivilians = 0

----------------------------------------------------------------------------
(* Claims about the night, the phase switch and day-1 voting *)

LastOf(q) == q[Len(q)]

\* C3 as stated: in run_game every Night phase entered with an alive wolf and
\* an alive civilian has, when it switches back to Day, killed exactly one
\* player, appended one kill entry to the history and distributed one
\* NightKillResult event.
C3_EveryNightKillsOne ==
    (/\ driver = "run_game" /\ pc = "switch_to_day"
     /\ NumAliveWolves >= 1 /\ NumAliveCivilians + nightKills >= 1) =>
        /\ nightKills = 1
        /\ history # <<>> /\ LastOf(history).kind = "kill"
        /\ events # <<>> /\ LastOf(events).type = "night_kill"

\* C4 as stated: every step from Night back to Day, by switch_to_day or by
\* transition_to_day, increments dayCount by one, rebuilds the speaker queue
\* from the alive non-moderator players and leaves votingEnabled = (dayCount > 1).
C4_NightToDay ==
    [][(currentPhase = "night" /\ currentPhase' = "day") =>
          /\ dayCount' = dayCount + 1
          /\ speakerQueue' = SpeakingOrderOf(alive')
          /\ votingEnabled' = (dayCount' > 1)]_vars

\* C5 as stated: while dayCount = 1 no vote is recorded and nobody is
\* eliminated by vote, under run_game and under run_game_loop.
C5_NoVoteOnDayOne ==
    dayCount = 1 =>
        /\ \A i \in DOMAIN history : history[i].kind \notin {"vote", "elimination"}
        /\ \A p \in Roster : votesReceived[p] = 0 /\ voteTarget[p] = 0

----------------------------------------------------------------------------
(* Claims about the speaking round and about failing agent calls *)

\* the speaking round of run_game's current day is over and no vote was cast yet
SpeakingRoundOver ==
    /\ driver = "run_game"
    /\ pc = "voting" \/ (pc = "check_day" /\ ~votingEnabled)

\* the last n entries of q
LastN(q, n) == SubSeq(q, Len(q) - n + 1, Len(q))

\* C6 as stated: in every Day phase each non-moderator player alive at the
\* start of the day speaks exactly once, in roster order, each speech being
\* appended to the history once and distributed once as a Public event with
\* that player as speaker, before any vote of that day.
C6_EveryoneSpeaksOnce ==
    SpeakingRoundOver =>
        LET n == Len(SpeakingOrderOf(alive))
        IN  /\ spoken = SpeakingOrderOf(alive)
            /\ Len(history) >= n /\ Len(events) >= n
            /\ \A i \in 1..n :
                  /\ LastN(history, n)[i] = Msg("speech", spoken[i], 0)
                  /\ LastN(events, n)[i].type = "public"
                  /\ LastN(events, n)[i].speaker = spoken[i]
                  /\ LastN(events, n)[i].msg = Msg("speech", spoken[i], 0)

\* C7 as stated: when a speaker's agent call fails during the speaking round,
\* every player behind it in the speaker queue still gets a turn that day: the
\* round does not end with players left in the queue.
C7_NoTurnSkipped ==
    (SpeakingRoundOver /\ failures > 0) => speakerQueue = <<>>

\* the notifications a step appends to the Output Sink
Appended(old, new) == {new[i] : i \in (Len(old) + 1)..Len(new)}

\* C8 as stated: every failure of a speech, vote or night-target call is
\* reported to the Output Sink as an event of category Error.
C8_FailuresReported ==
    [][(failures' = failures + 1 /\ pc' # "crashed") =>
          \E n \in Appended(sink, sink') : n.cat = "error"]_vars

\* C9 as stated: a failure of a single agent call (speech, vote, night target
\* or moderator announcement) never aborts run_game.
C9_NeverAborted ==
    driver = "run_game" => pc # "crashed"

\* run_game driven by agents that have not failed
FailureFree == driver = "run_game" /\ failures = 0

\* the exploration of run_game stopped at the day limit of the model
CutOff == driver = "run_game" /\ pc = "day" /\ dayCount > MaxDay

----------------------------------------------------------------------------
(* Claims about the game-over checks of run_game and about its end *)

\* the winning condition read off the alive players
GameOverNow == NumAliveWolves = 0 \/ NumAliveWolves >= NumAliveCivilians

\* C11: run_game decides after the Day segment and after the Night segment
\* whether the game is over; a game that is over after the Day segment goes
\* straight to the game-over announcement, nobody is killed and dayCount is not
\* incremented any more; a Night is entered only after a Day check that found
\* the game not over.
C11_CheckedAfterDayAndNight ==
    /\ [][(driver = "run_game" /\ pc = "check_day") =>
             /\ pc' = IF GameOverNow THEN "game_over" ELSE "night"
             /\ UNCHANGED <<alive, dayCount, currentPhase, history, events>>]_vars
    /\ [][(driver = "run_game" /\ pc = "switch_to_day") =>
             pc' = IF GameOverNow' THEN "game_over" ELSE "day"]_vars
    /\ [][(driver = "run_game" /\ pc' = "night") =>
             (pc = "check_day" /\ ~GameOverNow)]_vars
    /\ [][(driver = "run_game" /\ pc \in {"game_over", "done"}) =>
             /\ pc' \in {"done", "crashed"}
             /\ UNCHANGED <<alive, dayCount, nightKills>>]_vars

\* witness of C11: a vote of the Day segment ended the game
C11_Witness ==
    /\ driver = "run_game" /\ pc = "game_over"
    /\ history # <<>> /\ LastOf(history).kind = "elimination"

\* the notifications of the Output Sink that are game-over announcements, and
\* those that are role reveals
IsGameOverAnnouncement(e) == e.cat = "game_announcement" /\ e.tag = "game_over"
IsRoleReveal(e) == e.tag = "role_reveal"
IndexOf(q, e) == CHOOSE i \in DOMAIN q : q[i] = e

\* C12: when run_game has ended, the Output Sink holds exactly one game-over
\* announcement, made with the winner check_game_over gives on the final
\* state, and after it exactly one role reveal per non-moderator player,
\* alive or dead, with that player's role and final status, and none for the
\* moderator.
C12_AnnouncementAndReveal ==
    (driver = "run_game" /\ pc = "done") =>
        LET anns == SelectSeq(sink, IsGameOverAnnouncement)
            reveals == SelectSeq(sink, IsRoleReveal)
        IN  /\ Len(anns) = 1
            /\ anns[1].winner = (IF NumAliveWolves = 0 THEN "Civilians" ELSE "Wolves")
            /\ GameOverNow
            /\ Len(reveals) = Cardinality({p \in Roster : ~is_god(p)})
            /\ \A p \in Roster :
                  IF is_god(p)
                  THEN \A i \in DOMAIN reveals : reveals[i].player # p
                  ELSE \E i \in DOMAIN reveals :
                          /\ reveals[i].player = p
                          /\ reveals[i].role = role[p]
                          /\ reveals[i].status = (IF alive[p] THEN "Alive" ELSE "Dead")
                          /\ IndexOf(sink, reveals[i]) > IndexOf(sink, anns[1])

\* witness of C12: run_game ended with a dead and an alive player to reveal
C12_Witness ==
    /\ driver = "run_game" /\ pc = "done"
    /\ \E p, q \in Roster : ~is_god(p) /\ ~is_god(q) /\ alive[p] /\ ~alive[q]
    /\ \E i \in DOMAIN sink : IsRoleReveal(sink[i]) /\ sink[i].status = "Dead"

----------------------------------------------------------------------------
(* Claims about the voting round *)

\* run_voting_phase was the last engine call, and the VotingResult it returned
VotingReturned == result.call = "run_voting_phase"
VotingDone == VotingReturned /\ ~result.ret.error
VotingFaulted == VotingReturned /\ result.ret.error

\* the alive map at the start of the round that just returned
AliveBeforeRound ==
    IF result.ret.eliminated # 0
    THEN [alive EXCEPT ![result.ret.eliminated] = TRUE]
    ELSE alive

IsVoteEntry(h) == h.kind = "vote"
IsVoteEvent(e) == e.msg.kind = "vote"

\* C13: in a voting round that ran to its end the voters are the non-moderator
\* players alive at its start, each casts one vote in roster order for one of
\* them, each vote is one history entry and one Public event with the voter
\* as speaker, and the k-th voter was shown the k-1 votes cast before.
C13_VotingProtocol ==
    VotingDone =>
        LET voters == SpeakingOrderOf(AliveBeforeRound)
            votes == result.ret.votes
            entries == SelectSeq(history, IsVoteEntry)
            evs == SelectSeq(events, IsVoteEvent)
        IN  /\ Len(votes) = Len(voters)
            /\ Len(entries) = Len(voters)
            /\ Len(evs) = Len(voters)
            /\ Len(result.ret.shown) = Len(voters)
            /\ \A k \in 1..Len(voters) :
                  /\ votes[k].kind = "vote"
                  /\ votes[k].who = voters[k]
                  /\ votes[k].tgt \in AliveNonGodOf(AliveBeforeRound)
                  /\ entries[k] = [votes[k] EXCEPT !.day = dayCount, !.phase = "day"]
                  /\ evs[k].type = "public"
                  /\ evs[k].speaker = voters[k]
                  /\ evs[k].msg = votes[k]
                  /\ result.ret.shown[k] = SubSeq(votes, 1, k - 1)

\* witness of C13: a round of at least three voters ended with an elimination
C13_Witness ==
    /\ VotingDone /\ result.ret.eliminated # 0
    /\ Len(result.ret.votes) >= 3
    /\ result.ret.votes[2].tgt # result.ret.votes[1].tgt

----------------------------------------------------------------------------
(* Claims about the resolution of an answer to a target *)

Extracted == result.call = "extract_target_name"

\* the eligible names that occur in the answer, case-insensitively
NamedIn(answer, eligible) ==
    {i \in DOMAIN eligible : Contains(ToLower(eligible[i]), ToLower(answer))}

\* C14: the target resolved from an answer is always one of the eligible
\* names: the first in list order of the eligible names that occur in the
\* answer case-insensitively (also when one name is part of another), and the
\* first eligible name when none occurs.
C14_ResolvedTargetEligible ==
    Extracted =>
        LET answer == result.ret.answer
            eligible == result.ret.eligible
            target == result.ret.target
            named == NamedIn(answer, eligible)
        IN  /\ \E i \in DOMAIN eligible : eligible[i] = target
            /\ named # {} =>
                  \E i \in named : /\ target = eligible[i]
                                   /\ \A j \in named : i <= j
            /\ named = {} => target = eligible[1]

\* witness of C14: the answer is the second eligible name in another case, the
\* first eligible name is a part of it, and the first one is the target
C14_Witness ==
    /\ Extracted /\ Len(result.ret.eligible) = 2
    /\ result.ret.answer # result.ret.eligible[2]
    /\ ToLower(Strip(result.ret.answer)) = ToLower(result.ret.eligible[2])
    /\ NamedIn(result.ret.answer, result.ret.eligible) = {1, 2}
    /\ result.ret.target = result.ret.eligible[1]

----------------------------------------------------------------------------
(* Claims about get_vote_results and vote_for_player *)

TallyOf(p) == votesReceived[p]
Counted == AliveNonGodOf(alive)
Leaders == {p \in Counted : \A q \in Counted : TallyOf(q) <= TallyOf(p)}

\* C15: get_vote_results returns nobody exactly when no non-moderator player
\* is alive or every such player's tally is zero; otherwise it returns an
\* alive non-moderator player with the maximum tally, chosen among all the
\* players tied at the maximum and no others.
C15_VoteResults ==
    result.call = "get_vote_results" =>
        LET nobody == Counted = {} \/ \A p \in Counted : TallyOf(p) = 0
        IN  /\ (result.ret.pick = 0) <=> nobody
            /\ ~nobody =>
                  /\ result.ret.pick \in Leaders
                  /\ result.ret.among = Leaders

\* witness of C15: of two players tied at the maximum the second was returned
C15_Witness ==
    /\ result.call = "get_vote_results"
    /\ Cardinality(Leaders) = 2
    /\ \E p \in Leaders : p < result.ret.pick
    /\ TallyOf(result.ret.pick) >= 1

VoteCalled == result.call = "vote_for_player"
RECURSIVE SumUpTo(_, _)
SumUpTo(f, n) == IF n = 0 THEN 0 ELSE f[n] + SumUpTo(f, n - 1)
TotalVotes(vr) == SumUpTo(vr, Len(role))

\* the step is a vote_for_player call that passes both tests of the method
AcceptedVote ==
    /\ result'.call = "vote_for_player"
    /\ result'.ret.voter \in Roster /\ result'.ret.target \in Roster
    /\ alive[result'.ret.voter] /\ alive[result'.ret.target]

\* C16: when a voter that already has a vote target votes for another alive
\* player, the earlier target's tally goes down by one and the new target's
\* up by one, so the total of the tallies is unchanged; voting again for the
\* same target changes no tally.
C16_RevoteMovesOneVote ==
    [][(AcceptedVote /\ voteTarget[result'.ret.voter] # 0) =>
          LET voter == result'.ret.voter
              target == result'.ret.target
              earlier == voteTarget[voter]
          IN  /\ voteTarget' = [voteTarget EXCEPT ![voter] = target]
              /\ TotalVotes(votesReceived') = TotalVotes(votesReceived)
              /\ IF target = earlier
                 THEN votesReceived' = votesReceived
                 ELSE votesReceived' =
                         [votesReceived EXCEPT ![earlier] = @ - 1,
                                               ![target] = @ + 1]]_vars

\* witness of C16: a voter moved its vote from one player to another
C16_Witness ==
    /\ VoteCalled
    /\ result.ret.previous # 0 /\ result.ret.previous # result.ret.target
    /\ result.ret.voter \in Roster /\ result.ret.target \in Roster
    /\ alive[result.ret.voter] /\ alive[result.ret.target]
    /\ voteTarget[result.ret.voter] = result.ret.target

\* C17: a vote_for_player call whose voter or target is unknown or dead
\* changes no tally and no vote target (and nothing else of the game state).
C17_RejectedVoteChangesNothing ==
    [][(result'.call = "vote_for_player" /\ ~AcceptedVote) =>
          UNCHANGED gsVars]_vars

\* witness of C17: a dead player tried to vote for an alive one
C17_Witness ==
    /\ VoteCalled
    /\ result.ret.voter \in Roster /\ result.ret.target \in Roster
    /\ ~alive[result.ret.voter] /\ alive[result.ret.target]
    /\ voteTarget[result.ret.voter] # result.ret.target

----------------------------------------------------------------------------
(* Claims about the vote state a voting round leaves, and about a fault in it *)

CleanVoteState == \A p \in Roster : votesReceived[p] = 0 /\ voteTarget[p] = 0

\* C18 as stated: whenever run_voting_phase has returned, with or without an
\* elimination, every votesReceived is 0 and every voteTarget is empty.
C18_VotesResetAfterRound ==
    VotingReturned => CleanVoteState

\* C19 as stated: when a voter's agent raises inside a voting round, the fault
\* is reported to the Output Sink, the result has no votes and no eliminated
\* player, nobody was killed by the round, and no tally and no vote target is
\* left set.
C19_FaultLeavesNoPartialVotes ==
    VotingFaulted =>
        /\ \E i \in DOMAIN sink : sink[i].cat = "error"
        /\ result.ret.votes = <<>>
        /\ result.ret.eliminated = 0
        /\ \A i \in DOMAIN history : history[i].kind # "elimination"
        /\ CleanVoteState

----------------------------------------------------------------------------
(* Claims about the night victim *)

\* the step is a get_next_ai_action call in the Night phase
NightActed == currentPhase = "night" /\ result'.call = "get_next_ai_action"

\* C20: a night action kills at most one player, a civilian that was alive,
\* and it is the target of the returned action; the final target is asked of
\* at most one wolf, the first of alive_wolves, and of exactly that one when
\* somebody is killed; with no civilian alive nobody is killed.
C20_NightVictimIsCivilian ==
    [][NightActed =>
          /\ alive' # alive =>
                \E p \in Roster :
                   /\ alive[p] /\ is_civilian(p)
                   /\ alive' = [alive EXCEPT ![p] = FALSE]
                   /\ result'.ret.target = p
          /\ Len(result'.ret.asked) <= 1
          /\ result'.ret.asked # <<>> =>
                /\ alive_wolves # <<>>
                /\ result'.ret.asked[1] = alive_wolves[1]
          /\ alive' # alive => result'.ret.asked # <<>>
          /\ AliveCiviliansOf(alive) = {} => alive' = alive]_vars

\* witness of C20: with two wolves alive the first one chose the victim
C20_Witness ==
    /\ driver = "night" /\ result.call = "get_next_ai_action"
    /\ result.ret.ret = "night_kill"
    /\ NumAliveWolves = 2
    /\ result.ret.asked = <<alive_wolves[1]>>
    /\ ~alive[result.ret.target] /\ is_civilian(result.ret.target)

----------------------------------------------------------------------------
\* C21: when more than one wolf is alive at night, every alive wolf has one
\* coordination turn, in alive-wolves order, before the target is chosen, and
\* every coordination statement is distributed as a wolf_private event that
\* reaches the alive wolves and nobody else.  The turns are taken, but no
\* statement is ever distributed: this is the statement the code violates.
C21_CoordinationDistributed ==
    [][(NightActed /\ result'.ret.ret = "night_kill" /\ Len(alive_wolves) > 1)
        => /\ result'.ret.comms = alive_wolves
           /\ \A i \in 1..Len(alive_wolves) :
                 \E k \in DOMAIN events' :
                    /\ events'[k].type = "wolf_private"
                    /\ events'[k].speaker = alive_wolves[i]
                    /\ events'[k].to = {alive_wolves[j] : j \in 1..Len(alive_wolves)}]_vars

\* the part of C21 the code keeps: the coordination turns and their order
C21_TurnsInOrder ==
    [][(NightActed /\ result'.ret.ret = "night_kill" /\ Len(alive_wolves) > 1)
        => result'.ret.comms = alive_wolves]_vars


----------------------------------------------------------------------------
\* the last call was a distribution of an event of one of these types
DistributedAs(types) ==
    result.call = "_distribute_event_to_agents" /\ result.ret.type \in types

\* how many add_event calls the last distribution made on p's agent
TimesReceived(p) == Cardinality({k \in DOMAIN events : events[k].to = p})

\* C22: a wolf_private event is delivered only to players that are wolves and
\* alive when it is distributed: never to a civilian, a dead wolf or the
\* moderator.
C22_WolfPrivateOnlyAliveWolves ==
    DistributedAs({"wolf_private"})
        => \A p \in Roster :
              TimesReceived(p) > 0 => is_wolf(p) /\ alive[p] /\ ~is_god(p)

C22_Witness ==
    /\ DistributedAs({"wolf_private"})
    /\ events # <<>>
    /\ alive[God] /\ result.ret.speaker # 0 /\ is_civilian(result.ret.speaker)
    /\ \E p \in Roster : is_civilian(p) /\ alive[p] /\ TimesReceived(p) = 0

\* C23: the moderator's agent receives no event through the distribution,
\* whatever the event type and the speaker.
C23_ModeratorNeverReceives ==
    DistributedAs(EventTypes) => \A p \in Roster : is_god(p) => TimesReceived(p) = 0

C23_Witness ==
    /\ DistributedAs({"game_state"})
    /\ result.ret.speaker = God /\ alive[God]
    /\ events # <<>>

\* C24: a public event is delivered once to every player that is alive and
\* not the moderator when it is distributed, and to nobody else.
C24_PublicToAlivePlayers ==
    DistributedAs({"public"})
        => \A p \in Roster :
              TimesReceived(p) = IF alive[p] /\ ~is_god(p) THEN 1 ELSE 0

C24_Witness ==
    /\ DistributedAs({"public"})
    /\ events # <<>>
    /\ \E p \in Roster : ~is_god(p) /\ ~alive[p]

\* C25: an elimination, game_state, day_transition, day_number_change or
\* night_kill event is delivered once to every player but the moderator, dead
\* players included.
C25_ResultsToAllPlayers ==
    DistributedAs({"elimination", "game_state", "day_transition",
                   "day_number_change", "night_kill"})
        => \A p \in Roster : TimesReceived(p) = IF is_god(p) THEN 0 ELSE 1

C25_Witness ==
    /\ DistributedAs({"night_kill"})
    /\ \E p \in Roster : ~is_god(p) /\ ~alive[p] /\ TimesReceived(p) = 1



\* C26: for an event with a speaker S, S's own agent gets the first-person
\* text ("S said:" becomes "You said:", "S voted for" becomes "You voted for",
\* otherwise the first occurrence of S's name becomes "You"), every other
\* recipient gets the text unchanged, and the history keeps the third-person
\* text.  A speech "S: ..." that holds "said:" or "voted for" anywhere reaches
\* S unchanged: this is the statement the code violates.
C26_FirstPersonForSpeaker ==
    LET event == result.ret.event
        S == result.ret.speaker
        Has(next) == \E i \in 1..(Len(event) - 1) :
                        event[i] = Name(S) /\ event[i + 1] = Plain(next)
        first_person == IF Has("said:") THEN ReplaceBefore(event, S, "said:")
                        ELSE IF Has("voted for") THEN ReplaceBefore(event, S, "voted for")
                        ELSE ReplaceFirst(event, S)
    IN  (DistributedAs(EventTypes) /\ result.ret.speaker # 0)
            => /\ \A k \in DOMAIN events :
                     events[k].text = IF events[k].to = S THEN first_person ELSE event
               /\ \A h \in DOMAIN history :
                     history[h] \in {event, <<Plain("Day d (phase):")>> \o event}

\* the parts of C26 the code keeps: the other recipients and the history
C26_OthersAndHistoryUnchanged ==
    (DistributedAs(EventTypes) /\ result.ret.speaker # 0)
        => /\ \A k \in DOMAIN events :
                 events[k].to # result.ret.speaker => events[k].text = result.ret.event
           /\ \A h \in DOMAIN history :
                 history[h] \in {result.ret.event,
                                 <<Plain("Day d (phase):")>> \o result.ret.event}


----------------------------------------------------------------------------
----------------------------------------------------------------------------
\* the constructor returned a GameState for num_players = n
Built(n) == result.call = "GameState" /\ result.ret = [num_players |-> n, raised |-> FALSE]

RoleCount(r) == Cardinality({p \in Roster : role[p] = r})

\* the role counts of a roster meant for n players
CountsFor(n) ==
    /\ RoleCount("god") = 1
    /\ RoleCount("wolf") >= 1
    /\ RoleCount("wolf") = (IF n < 5 THEN 1 ELSE n \div 5)
    /\ 5 * RoleCount("wolf") <= Max2(n, 5)
    /\ RoleCount("civilian") = n - RoleCount("wolf") - 1
    /\ RoleCount("civilian") >= 1

\* C28: for every player count n in 6..15 the initial roster has one
\* moderator, max(1, floor(0.2 n)) wolves and n - wolves - 1 civilians,
\* whatever the shuffle.  A name drawn twice replaces a player of the roster:
\* this is the statement the code violates.
C28_RoleCounts ==
    \A n \in MinPlayers..MaxPlayersCode : Built(n) => CountsFor(n)

\* the part of C28 the code keeps: the counts of a roster of n distinct names
C28_CountsOfDistinctNames ==
    \A n \in MinPlayers..MaxPlayersCode : (Built(n) /\ Len(role) = n) => CountsFor(n)

\* C29: after initialization with num_players = n the roster holds n players
\* of pairwise distinct names, whatever names the generator returns, and the
\* game starts in phase day with day_count 1 and voting disabled.  The roster
\* is keyed by name, so its names are distinct; with a name drawn twice it
\* holds fewer than n players: this is the statement the code violates.
C29_RosterOfDistinctNames ==
    \A n \in 0..MaxRequest :
        Built(n) => /\ Len(role) = n
                    /\ currentPhase = "day" /\ dayCount = 1 /\ ~votingEnabled

\* the part of C29 the code keeps: the phase, the day count and the voting flag
C29_StartsOnDayOne ==
    \A n \in 0..MaxRequest :
        Built(n) => currentPhase = "day" /\ dayCount = 1 /\ ~votingEnabled

\* C30: a GameState for a player count outside 6..15 fails with an error
\* before any player or other state is built.  Counts 3, 4 and 5 pass the
\* range test: this is the statement the code violates.
C30_OutOfRangeRejected ==
    \A n \in (0..MaxRequest) \ (MinPlayers..MaxPlayersCode) :
        (result.call = "GameState" /\ result.ret.num_players = n)
            => /\ result.ret.raised
               /\ role = <<>> /\ speakerQueue = <<>> /\ dayCount = 0

\* the part of C30 the code keeps: counts below 3 and above 15 are rejected
\* with nothing built
C30_FarOutOfRangeRejected ==
    \A n \in (0..MaxRequest) \ (MinPlayersCode..MaxPlayersCode) :
        (result.call = "GameState" /\ result.ret.num_players = n)
            => /\ result.ret.raised
               /\ role = <<>> /\ speakerQueue = <<>> /\ dayCount = 0


----------------------------------------------------------------------------
\* C31: for one game id the GameState is never mutated from two call sites at
\* once: two started loops never have their engine calls in progress together
\* and a player_action request never appends to the history while a loop's
\* worker call is in progress.  start_game starts a second loop unguarded and
\* nothing serializes the calls: this is the statement the code violates.
C31_OneCallSiteAtATime ==
    [][/\ Cardinality({t \in Tasks : pc'[t].at = "in_call"}) <= 1
       /\ (result'.call = "player_action" /\ history' # history) => InCall = {}]_vars

\* the part of C31 the code keeps: with a single started loop and no request,
\* the speeches are recorded in the order the speakers were taken
C31_SingleLoopKeepsOrder ==
    (pc[2].at = "off" /\ \A k \in DOMAIN history : history[k].kind = "speech")
        => \A j, k \in DOMAIN history : j < k => history[j].who < history[k].who


----------------------------------------------------------------------------
----------------------------------------------------------------------------
\* the players in the speaker queue
Queued(q) == {q[k] : k \in DOMAIN q}

\* C33: within one day a player taken from the speaker queue is never put
\* back into it before the next day starts.  kill_player after a vote and the
\* host loop's update_speaking_order rebuild the queue from every alive
\* player: this is the statement the code violates.
C33_NoSpeakerPutBack ==
    [][(currentPhase = "day" /\ currentPhase' = "day" /\ dayCount' = dayCount)
        => Queued(speakerQueue') \subseteq Queued(speakerQueue)]_vars



\* C34: in every state between operations each player in the speaker queue is
\* alive and is not the moderator, right after a vote elimination and right
\* after a night kill too.  execute_night_kill sets is_alive without
\* rebuilding the queue: this is the statement the code violates.
C34_QueueHoldsAlivePlayers ==
    \A p \in Queued(speakerQueue) : alive[p] /\ ~is_god(p)

\* the parts of C34 the code keeps: the moderator is never queued, and during
\* the Day phase every queued player is alive
C34_QueueInDayPhase ==
    /\ \A p \in Queued(speakerQueue) : ~is_god(p)
    /\ currentPhase = "day" => \A p \in Queued(speakerQueue) : alive[p]


----------------------------------------------------------------------------
\* run_day_phase has run for the current day and the speaking phase is on
InSpeakingPhase == driver = "run_game" /\ currentPhase = "day" /\ pc = "speaking"

\* the number of events a day entry distributes
EntryEvents == IF dayCount > 1 THEN 3 ELSE 2

----------------------------------------------------------------------------
\* the last engine call was a night get_next_ai_action that returned None
NightStepFailed ==
    /\ currentPhase = "night"
    /\ result.call = "get_next_ai_action" /\ result.ret.ret = "none"

\* C36: a failed agent call of the night is handled once and not requested
\* again within the same night; the night ends and the next Day starts, in
\* run_game and in run_game_loop.  run_game_loop skips a None action and its
\* next pass calls get_next_ai_action again in the same night: this is the
\* statement the code violates.
C36_FailedNightCallNotRetried ==
    [][NightStepFailed
        => /\ failures' = failures /\ nightKills' = nightKills
           /\ currentPhase' = "day" /\ dayCount' = dayCount + 1]_vars

\* the part of C36 the code keeps: under run_game the failed call is not
\* repeated and the night ends
C36_RunGameNightEnds ==
    [][(NightStepFailed /\ driver = "run_game")
        => /\ failures' = failures /\ nightKills' = nightKills
           /\ currentPhase' = "day" /\ dayCount' = dayCount + 1]_vars



----------------------------------------------------------------------------
(* C37: a completed voting round eliminates exactly one eligible player     *)

\* a step in which run_voting_phase runs and returns
VotingStep ==
    /\ result.call # "run_voting_phase"
    /\ result'.call = "run_voting_phase"

\* C37: a voting round that completes without a fault and has at least one
\* eligible voter kills exactly one player, who was alive and not the
\* moderator when the round started; a round eliminates nobody only when it
\* faults or has no eligible voter, and then nobody dies
C37_RoundEliminatesOne ==
    [][VotingStep =>
          LET voters == AliveNonGodOf(alive)
          IN  IF ~result'.ret.error /\ voters # {}
              THEN /\ result'.ret.eliminated \in voters
                   /\ alive' = Killed(alive, result'.ret.eliminated)
              ELSE /\ result'.ret.eliminated = 0
                   /\ alive' = alive]_vars

\* a completed round whose two leading targets are tied still eliminates one
C37_Witness ==
    /\ VotingDone
    /\ result.ret.eliminated # 0
    /\ ~alive[result.ret.eliminated]
    /\ LET votes == result.ret.votes
           T(p) == Cardinality({k \in 1..Len(votes) : votes[k].tgt = p})
       IN  \E p \in Roster, q \in Roster :
              p # q /\ T(p) > 0 /\ T(p) = T(q)
              /\ \A r \in Roster : T(r) <= T(p)



----------------------------------------------------------------------------
(* C38: a tally is the number of players that vote for its player           *)

\* the players whose vote_target is p
VotersFor(p) == {v \in Roster : voteTarget[v] = p}

\* C38: for every player p, votes_received of p is the number of players
\* whose vote_target is p; so no tally is negative and the tallies add up to
\* the number of players that have a vote_target
C38_TallyCountsVoters ==
    /\ \A p \in Roster :
          /\ votesReceived[p] = Cardinality(VotersFor(p))
          /\ votesReceived[p] >= 0
    /\ TotalVotes(votesReceived)
          = Cardinality({v \in Roster : voteTarget[v] # 0})

\* an accepted vote that moves the voter from another target to a player who
\* then has two votes
C38_Witness ==
    /\ result.call = "vote_for_player"
    /\ result.ret.voter \in Roster
    /\ result.ret.previous \notin {0, result.ret.target}
    /\ voteTarget[result.ret.voter] = result.ret.target
    /\ votesReceived[result.ret.target] = 2



----------------------------------------------------------------------------
(* C39: the phases alternate and day_count counts the days                  *)

\* a step that changes the phase or the day count
PhaseStep == currentPhase' # currentPhase \/ dayCount' # dayCount

\* C39: a game starts in the day phase of day 1; every phase change goes from
\* day to night or from night to day; day_count changes only together with a
\* change from night to day, and then grows by exactly one, so it never
\* decreases: under run_game and under run_game_loop
C39_PhasesAlternate ==
    /\ currentPhase = "day" /\ dayCount = 1
    /\ [][PhaseStep =>
             \/ /\ currentPhase = "day" /\ currentPhase' = "night"
                /\ dayCount' = dayCount
             \/ /\ currentPhase = "night" /\ currentPhase' = "day"
                /\ dayCount' = dayCount + 1]_vars

\* the host loop in the second night: day 1, night, day 2, night
C39_Witness ==
    /\ driver = "run_game_loop"
    /\ currentPhase = "night"
    /\ dayCount = 2
    /\ result.call = "run_voting_phase"



----------------------------------------------------------------------------
(* C40: the moderator stays out of the votes and the kills                  *)

\* the moderator is alive, holds and receives no vote, and is not named by
\* the last voting round or the last night kill
ModeratorOutOfPlay ==
    /\ alive[God]
    /\ voteTarget[God] = 0
    /\ votesReceived[God] = 0
    /\ \A p \in Roster : voteTarget[p] # God
    /\ VotingReturned =>
          /\ result.ret.eliminated # God
          /\ \A k \in 1..Len(result.ret.votes) :
                /\ result.ret.votes[k].who # God
                /\ result.ret.votes[k].tgt # God
    /\ (result.call = "get_next_ai_action" /\ result.ret.ret = "night_kill") =>
          result.ret.target # God

\* C40: under run_game and under run_game_loop the moderator is alive in
\* every state, is never a voter, a vote target, the player a vote eliminates
\* or the night victim, and a dead player never becomes alive again
C40_ModeratorAliveDeadStayDead ==
    /\ ModeratorOutOfPlay
    /\ [][/\ ModeratorOutOfPlay'
          /\ \A p \in Roster : alive'[p] => alive[p]]_vars

\* a voting round of the host loop has eliminated a player after two other
\* players died, and the moderator is alive
C40_Witness ==
    /\ driver = "run_game_loop"
    /\ VotingDone
    /\ result.ret.eliminated # 0
    /\ Cardinality({p \in Roster : ~alive[p]}) >= 3
    /\ alive[God]

====
